---- MODULE Spec2Model ----
(***************************************************************************)
(* Model of backend/app/api/v1/question_solver.py: the question-paper      *)
(* pipeline  extract -> parse_questions -> format_parsed_questions ->      *)
(* solve_questions_enhanced -> generate_enhanced_pdf  run by the handler   *)
(* upload_and_solve.                                                       *)
(*                                                                         *)
(* A text is a sequence of one-character strings.  The regular expressions *)
(* of the source are written as syntax trees and run by a backtracking     *)
(* matcher that tries the alternatives in the order Python's re does.      *)
(***************************************************************************)
EXTENDS Integers, Sequences, FiniteSets, TLC

-----------------------------------------------------------------------------
(* Characters                                                              *)

NL == "\n"
SP == " "

Digits == {"0", "1", "2", "3", "4", "5", "6", "7", "8", "9"}

DigitSeq == <<"0", "1", "2", "3", "4", "5", "6", "7", "8", "9">>

UpperSeq == <<"A", "B", "C", "D", "E", "F", "G", "H", "I", "J", "K", "L", "M",
              "N", "O", "P", "Q", "R", "S", "T", "U", "V", "W", "X", "Y", "Z">>

LowerSeq == <<"a", "b", "c", "d", "e", "f", "g", "h", "i", "j", "k", "l", "m",
              "n", "o", "p", "q", "r", "s", "t", "u", "v", "w", "x", "y", "z">>

Uppers == {UpperSeq[i] : i \in DOMAIN UpperSeq}

Lowers == {LowerSeq[i] : i \in DOMAIN LowerSeq}

Letters == Uppers \cup Lowers

\* \s of re, str.strip() and str.split(): the whitespace of the modelled alphabet
Whitespace == {SP, NL, "\t"}

\* \w of re, which decides \b
WordChars == Letters \cup Digits \cup {"_"}

LowerMap == [c \in Uppers |-> LowerSeq[CHOOSE i \in DOMAIN UpperSeq : UpperSeq[i] = c]]

\* str.lower() on one character
LowerChar(c) == IF c \in Uppers THEN LowerMap[c] ELSE c

\* str.lower()
LowerText(s) == [i \in DOMAIN s |-> LowerChar(s[i])]

-----------------------------------------------------------------------------
(* Regular expressions: syntax trees                                       *)

Set(S) == [t |-> "set", s |-> S]

NotSet(S) == [t |-> "nset", s |-> S]

\* .
Dot == [t |-> "any"]

Cat(xs) == [t |-> "cat", xs |-> xs]

Alt(xs) == [t |-> "alt", xs |-> xs]

\* x{min,max} for a one-character x (every repetition of the source is one);
\* max = -1 is no upper limit; lazy is the trailing ?
Rep(x, min, max, lazy) == [t |-> "rep", x |-> x, min |-> min, max |-> max, lazy |-> lazy]

Star(x) == Rep(x, 0, -1, FALSE)

Plus(x) == Rep(x, 1, -1, FALSE)

Opt(x) == Rep(x, 0, 1, FALSE)

LazyPlus(x) == Rep(x, 1, -1, TRUE)

\* capturing group number n
Grp(n, x) == [t |-> "grp", n |-> n, x |-> x]

\* (?=x)
Look(x) == [t |-> "look", x |-> x]

\* ^
Bol == [t |-> "bol"]

\* $
Eol == [t |-> "eol"]

\* \Z
Eos == [t |-> "eos"]

\* \b
Wb == [t |-> "wb"]

\* a literal string
Lit(s) == [t |-> "lit", s |-> s]

\* the flags of a call: re.IGNORECASE, re.MULTILINE, re.DOTALL
Flags(i, m, s) == [ic |-> i, ml |-> m, dotall |-> s]

NoFlags == Flags(FALSE, FALSE, FALSE)

-----------------------------------------------------------------------------
(* Regular expressions: the backtracking matcher                           *)

Fail == [ok |-> FALSE]

CharIn(c, S, fl) ==
    \/ c \in S
    \/ fl.ic /\ \E d \in S : LowerChar(d) = LowerChar(c)

IsWordAt(text, p) == p >= 1 /\ p <= Len(text) /\ text[p] \in WordChars

\* Whether the zero-width node n holds at position pos
ZeroWidth(n, text, pos, fl) ==
    CASE n.t = "bol" -> pos = 1 \/ (fl.ml /\ text[pos - 1] = NL)
      [] n.t = "eol" -> \/ pos = Len(text) + 1
                        \/ pos = Len(text) /\ text[pos] = NL
                        \/ fl.ml /\ pos <= Len(text) /\ text[pos] = NL
      [] n.t = "eos" -> pos = Len(text) + 1
      [] n.t = "wb"  -> IsWordAt(text, pos - 1) # IsWordAt(text, pos)

\* Whether the one-character node n accepts the character c
OneChar(n, c, fl) ==
    CASE n.t = "set"  -> CharIn(c, n.s, fl)
      [] n.t = "nset" -> ~CharIn(c, n.s, fl)
      [] n.t = "any"  -> fl.dotall \/ c # NL

\* Whether the literal lit stands at position pos
LitAt(lit, text, pos, fl) ==
    /\ pos + Len(lit) - 1 <= Len(text)
    /\ \A i \in DOMAIN lit :
          \/ text[pos + i - 1] = lit[i]
          \/ fl.ic /\ LowerChar(text[pos + i - 1]) = LowerChar(lit[i])

Range(s) == {s[i] : i \in DOMAIN s}

SetMin(S) == CHOOSE x \in S : \A y \in S : x <= y

SetMax(S) == CHOOSE x \in S : \A y \in S : y <= x

\* The least number of lo .. hi for which P holds, hi + 1 if there is none
Least(lo, hi, P(_)) ==
    IF \E k \in lo .. hi : P(k)
    THEN CHOOSE k \in lo .. hi : P(k) /\ \A j \in lo .. k - 1 : ~P(j)
    ELSE hi + 1

\* The first position in lo .. hi whose character the one-character node x
\* refuses, hi + 1 if it accepts them all
FirstRefused(x, text, lo, hi, fl) == Least(lo, hi, LAMBDA p : ~OneChar(x, text[p], fl))

\* How many characters from position pos on the one-character node x accepts
\* in a row, at most max of them when max >= 0
RunLength(x, max, text, pos, fl) ==
    LET last == IF max >= 0 /\ pos + max - 1 < Len(text) THEN pos + max - 1 ELSE Len(text)
    IN FirstRefused(x, text, pos, last, fl) - pos

\* The first of two attempts that succeeds, the second tried only when the
\* first fails
OrElse(first, second) == IF first.ok THEN first ELSE second

\* The first of the attempts tries, in their order, that succeeded
FirstOk(tries) ==
    IF \A i \in DOMAIN tries : ~tries[i].ok THEN Fail
    ELSE tries[SetMin({i \in DOMAIN tries : tries[i].ok})]

\* The first way, in re's order of trial, to match the nodes of stack one after
\* the other from position pos; caps are the groups captured so far, each a
\* pair <<first, end>> of positions (<<0, 0>>: the group took no part).
RECURSIVE MatchK(_, _, _, _, _)
RECURSIVE RepTry(_, _, _, _, _, _, _, _)
MatchK(stack, text, pos, caps, fl) ==
    CASE stack = <<>> -> [ok |-> TRUE, pos |-> pos, caps |-> caps]
      [] stack # <<>> /\ Head(stack).t \in {"set", "nset", "any"}
           /\ pos <= Len(text) /\ OneChar(Head(stack), text[pos], fl) ->
           MatchK(Tail(stack), text, pos + 1, caps, fl)
      [] stack # <<>> /\ Head(stack).t \in {"bol", "eol", "eos", "wb"}
           /\ ZeroWidth(Head(stack), text, pos, fl) ->
           MatchK(Tail(stack), text, pos, caps, fl)
      [] stack # <<>> /\ Head(stack).t = "lit" /\ LitAt(Head(stack).s, text, pos, fl) ->
           MatchK(Tail(stack), text, pos + Len(Head(stack).s), caps, fl)
      [] stack # <<>> /\ Head(stack).t = "cat" ->
           MatchK(Head(stack).xs \o Tail(stack), text, pos, caps, fl)
      [] stack # <<>> /\ Head(stack).t = "alt" ->
           FirstOk([i \in DOMAIN Head(stack).xs |->
                      MatchK(<<Head(stack).xs[i]>> \o Tail(stack), text, pos, caps, fl)])
      [] stack # <<>> /\ Head(stack).t = "rep" ->
           RepTry(Tail(stack), text, pos, caps, fl, Head(stack).min,
                  RunLength(Head(stack).x, Head(stack).max, text, pos, fl), Head(stack).lazy)
      [] stack # <<>> /\ Head(stack).t = "grp" ->
           MatchK(<<Head(stack).x, [t |-> "end", n |-> Head(stack).n, from |-> pos]>>
                    \o Tail(stack), text, pos, caps, fl)
      [] stack # <<>> /\ Head(stack).t = "end" ->
           MatchK(Tail(stack), text, pos,
                  [caps EXCEPT ![Head(stack).n] = <<Head(stack).from, pos>>], fl)
      [] stack # <<>> /\ Head(stack).t = "look"
           /\ MatchK(<<Head(stack).x>>, text, pos, caps, fl).ok ->
           MatchK(Tail(stack), text, pos, caps, fl)
      [] OTHER -> Fail

\* A repetition that may take lo .. hi characters from position pos: the
\* first count, in re's order of trial (a lazy repetition tries them from the
\* smallest, a greedy one from the largest), after which the rest matches.
\* The counts are tried 32 at a time.
RepTry(rest, text, pos, caps, fl, lo, hi, lazy) ==
    CASE lo > hi -> Fail
      [] lo <= hi /\ hi - lo < 32 ->
           FirstOk([i \in 0 .. hi - lo |->
                      MatchK(rest, text, pos + (IF lazy THEN lo + i ELSE hi - i), caps, fl)])
      [] hi - lo >= 32 /\ lazy ->
           OrElse(RepTry(rest, text, pos, caps, fl, lo, lo + 31, lazy),
                  RepTry(rest, text, pos, caps, fl, lo + 32, hi, lazy))
      [] hi - lo >= 32 /\ ~lazy ->
           OrElse(RepTry(rest, text, pos, caps, fl, hi - 31, hi, lazy),
                  RepTry(rest, text, pos, caps, fl, lo, hi - 32, lazy))

NoCaps(ng) == [i \in 1 .. ng |-> <<0, 0>>]

\* pattern.match at position p: [ok, pos (the end), caps]
MatchAt(rx, ng, text, p, fl) == MatchK(<<rx>>, text, p, NoCaps(ng), fl)

\* a match m that starts at position at, as [ok, first, end, caps]
FoundAt(m, at) ==
    IF m.ok THEN [ok |-> TRUE, first |-> at, end |-> m.pos, caps |-> m.caps] ELSE Fail

\* pattern.match at each position of lo .. hi
MatchesAt(rx, ng, text, lo, hi, fl) == [p \in lo .. hi |-> MatchAt(rx, ng, text, p, fl)]

\* the match at the first position where there is one
FirstFound(at) ==
    IF \A p \in DOMAIN at : ~at[p].ok THEN Fail
    ELSE FoundAt(at[SetMin({p \in DOMAIN at : at[p].ok})], SetMin({p \in DOMAIN at : at[p].ok}))

\* pattern.search from position lo: the match at the first position in
\* lo .. hi where there is one
SearchIn(rx, ng, text, lo, hi, fl) == FirstFound(MatchesAt(rx, ng, text, lo, hi, fl))

\* the matches there are at the positions 1 .. n of a text, in the order of
\* their positions
AllFound(at, n) ==
    LET ps == SelectSeq([p \in 1 .. n |-> p], LAMBDA p : at[p].ok)
    IN [k \in DOMAIN ps |-> FoundAt(at[ps[k]], ps[k])]

\* The sequences of ss[lo .. hi] one after the other (joined by halves)
RECURSIVE ConcatIn(_, _, _)
ConcatIn(ss, lo, hi) ==
    IF lo > hi THEN <<>>
    ELSE IF lo = hi THEN ss[lo]
    ELSE ConcatIn(ss, lo, (lo + hi) \div 2) \o ConcatIn(ss, (lo + hi) \div 2 + 1, hi)

\* what a loop that extends a list by ss[1], ss[2], ... in turn builds
Concat(ss) == ConcatIn(ss, 1, Len(ss))

\* The scan of re.findall, re.finditer and re.sub over found[lo .. hi], the
\* matches there are in the order of their positions; scan holds the matches
\* taken so far and the cursor. A match that starts at the cursor or after it
\* is taken, and the cursor moves to its end (after an empty match one
\* character on); a match that starts before the cursor is passed over. The
\* scan is done by halves, the first half before the second.
RECURSIVE MatchesFrom(_, _, _, _)
MatchesFrom(found, scan, lo, hi) ==
    IF lo > hi \/ found[hi].first < scan.cur THEN scan
    ELSE IF lo = hi
    THEN [ms  |-> Append(scan.ms, found[lo]),
          cur |-> IF found[lo].end = found[lo].first THEN found[lo].first + 1
                  ELSE found[lo].end]
    ELSE MatchesFrom(found, MatchesFrom(found, scan, lo, (lo + hi) \div 2),
                     (lo + hi) \div 2 + 1, hi)

\* the matches the scan takes of those found
MatchesAfter(found) == MatchesFrom(found, [ms |-> <<>>, cur |-> 1], 1, Len(found)).ms

\* The leftmost non-overlapping matches of rx in text, as re.findall,
\* re.finditer and re.sub scan them
Matches(rx, ng, text, fl) ==
    MatchesAfter(AllFound(MatchesAt(rx, ng, text, 1, Len(text) + 1, fl), Len(text) + 1))

\* the matches of each pattern of a list in turn, one pattern after the other
RECURSIVE AllMatches(_, _, _, _)
AllMatches(patterns, ng, text, fl) ==
    IF patterns = <<>> THEN <<>>
    ELSE Matches(Head(patterns), ng, text, fl) \o AllMatches(Tail(patterns), ng, text, fl)

\* re.search(...) is not None
Search(rx, text, fl) == SearchIn(rx, 0, text, 1, Len(text) + 1, fl).ok

\* the text of a captured group, '' for a group that took no part
GroupText(text, cap) == SubSeq(text, cap[1], cap[2] - 1)

\* text with each of the matches ms replaced by repl: before every match the
\* text since the match before it, after the last match the rest of the text
Splice(text, ms, repl) ==
    Concat([i \in DOMAIN ms |->
              SubSeq(text, IF i = 1 THEN 1 ELSE ms[i - 1].end, ms[i].first - 1) \o repl])
      \o SubSeq(text, IF ms = <<>> THEN 1 ELSE ms[Len(ms)].end, Len(text))

\* re.sub(rx, repl, text) for a replacement without group references
Sub(rx, repl, text, fl) == Splice(text, Matches(rx, 0, text, fl), repl)

\* The first position of text where the literal lit starts, 0 if none
FindLit(lit, text) ==
    LET S == {p \in 1 .. Len(text) - Len(lit) + 1 : SubSeq(text, p, p + Len(lit) - 1) = lit}
    IN IF S = {} THEN 0 ELSE SetMin(S)

\* str.replace(old, new) for a one-character old
ReplaceChar(text, old, new) == [i \in DOMAIN text |-> IF text[i] = old THEN new ELSE text[i]]

\* s[:n]
Take(s, n) == SubSeq(s, 1, IF Len(s) < n THEN Len(s) ELSE n)

\* str.strip()
Strip(text) ==
    LET keep == {i \in DOMAIN text : text[i] \notin Whitespace}
    IN IF keep = {} THEN <<>>
       ELSE SubSeq(text, SetMin(keep), SetMax(keep))

\* ' '.join(text.split()): the characters of the words are kept, and of every
\* run of whitespace between two words one character, which becomes a space
JoinWords(text) ==
    LET InWord(i) == text[i] \notin Whitespace
        kept == SelectSeq([i \in DOMAIN text |-> i],
                          LAMBDA i : \/ InWord(i)
                                     \/ /\ i > 1 /\ InWord(i - 1)
                                        /\ \E j \in i + 1 .. Len(text) : InWord(j))
    IN [k \in DOMAIN kept |-> IF InWord(kept[k]) THEN text[kept[k]] ELSE SP]

\* int(s) for a string of digits
RECURSIVE ToInt(_)
ToInt(s) ==
    IF s = <<>> THEN 0
    ELSE 10 * ToInt(SubSeq(s, 1, Len(s) - 1))
           + ((CHOOSE i \in DOMAIN DigitSeq : DigitSeq[i] = s[Len(s)]) - 1)

\* str(n) for n >= 0
RECURSIVE ToStr(_)
ToStr(n) == IF n < 10 THEN <<DigitSeq[n + 1]>> ELSE ToStr(n \div 10) \o <<DigitSeq[(n % 10) + 1]>>

-----------------------------------------------------------------------------
(* QuestionParser                                                          *)

D == Set(Digits)

S == Set(Whitespace)

ML == Flags(FALSE, TRUE, FALSE)

MLDotAll == Flags(FALSE, TRUE, TRUE)

IgnoreCase == Flags(TRUE, FALSE, FALSE)

IgnoreCaseDotAll == Flags(TRUE, FALSE, TRUE)

\* the characters the OCR fix of _clean_text replaces, and the degree sign
MathSmallO == "U+1D45C"

MathCapitalO == "U+1D442"

Degree == "U+00B0"

\* r'Page \d+|page \d+|\d+\s*$'
RxPageNumber ==
    Alt(<<Cat(<<Lit(<<"P", "a", "g", "e", SP>>), Plus(D)>>),
          Cat(<<Lit(<<"p", "a", "g", "e", SP>>), Plus(D)>>),
          Cat(<<Plus(D), Star(S), Eol>>)>>)

\* QuestionParser._clean_text
CleanText(text) ==
    LET t1 == Sub(RxPageNumber, <<>>, text, ML)
        t2 == Sub(Rep(Set({NL}), 3, -1, FALSE), <<NL, NL>>, t1, NoFlags)
        t3 == Sub(Rep(Set({SP}), 2, -1, FALSE), <<SP>>, t2, NoFlags)
    IN Strip(ReplaceChar(ReplaceChar(t3, MathSmallO, Degree), MathCapitalO, Degree))

\* r'\[\d+\s*marks?\]|\(\d+\s*marks?\)|\d+\s*marks?$'
RxMarksNotation ==
    Alt(<<Cat(<<Set({"["}), Plus(D), Star(S), Lit(<<"m", "a", "r", "k">>), Opt(Set({"s"})),
      Set({"]"})>>),
          Cat(<<Set({"("}), Plus(D), Star(S), Lit(<<"m", "a", "r", "k">>), Opt(Set({"s"})),
      Set({")"})>>),
          Cat(<<Plus(D), Star(S), Lit(<<"m", "a", "r", "k">>), Opt(Set({"s"})), Eol>>)>>)

OrLine == <<NL, "O", "R", NL>>

\* text.split('\nOR\n')[0] where the text holds '\nOR\n'
BeforeOr(text, at) == IF at > 0 THEN SubSeq(text, 1, at - 1) ELSE text

BeforeOrLine(text) == BeforeOr(text, FindLit(OrLine, text))

\* QuestionParser._clean_question_text
CleanQuestionText(text) ==
    Strip(JoinWords(BeforeOrLine(Sub(RxMarksNotation, <<>>, text, IgnoreCase))))

\* the skip_patterns of _is_valid_question, in order
SkipPatterns ==
    <<Cat(<<Lit(<<"S", "e", "c", "t", "i", "o", "n", SP>>), Set({"A", "B", "C", "D", "E"})>>),
      Cat(<<Lit(<<"S", "E", "C", "T", "I", "O", "N", SP>>), Set({"A", "B", "C", "D", "E"})>>),
      Lit(<<"G", "e", "n", "e", "r", "a", "l", SP, "I", "n", "s", "t", "r", "u", "c", "t", "i",
      "o", "n", "s">>),
      Lit(<<"I", "n", "s", "t", "r", "u", "c", "t", "i", "o", "n", "s">>),
      Lit(<<"N", "o", "t", "e", ":">>),
      Lit(<<"A", "n", "s", "w", "e", "r">>),
      Cat(<<Lit(<<"c", "o", "n", "s", "i", "s", "t", "s", SP, "o", "f", SP>>), Plus(D), Lit(<<SP,
      "q", "u", "e", "s", "t", "i", "o", "n", "s">>)>>),
      Lit(<<"m", "a", "r", "k", "s", SP, "e", "a", "c", "h">>)>>

Word(w) == Cat(<<Wb, Lit(w), Wb>>)

\* the regular expressions among the question_indicators of _is_valid_question
\* (the first indicator, '?', is a plain substring test)
QuestionIndicators ==
    <<Word(<<"f", "i", "n", "d">>), Word(<<"c", "a", "l", "c", "u", "l", "a", "t", "e">>),
      Word(<<"p", "r", "o", "v", "e">>), Word(<<"s", "o", "l", "v", "e">>),
      Word(<<"e", "x", "p", "l", "a", "i", "n">>), Word(<<"d", "e", "f", "i", "n", "e">>),
      Word(<<"d", "e", "r", "i", "v", "e">>), Word(<<"s", "h", "o", "w", SP, "t", "h", "a", "t">>),
      Word(<<"w", "h", "a", "t">>), Word(<<"w", "h", "i", "c", "h">>), Word(<<"h", "o", "w">>),
      Word(<<"w", "h", "y">>), Word(<<"w", "h", "e", "n">>),
      Word(<<"e", "v", "a", "l", "u", "a", "t", "e">>), Word(<<"d", "e", "t", "e", "r", "m", "i",
      "n", "e">>), Word(<<"s", "t", "a", "t", "e">>), Word(<<"w", "r", "i", "t", "e">>),
      Cat(<<Word(<<"i", "f">>), Star(Dot), Word(<<"t", "h", "e", "n">>)>>),
      Cat(<<Word(<<"g", "i", "v", "e", "n">>), Star(Dot), Word(<<"f", "i", "n", "d">>)>>)>>

\* r'[\d\+\-\*\/\=\^]+'
RxMath == Plus(Set(Digits \cup {"+", "-", "*", "/", "=", "^"}))

MinQuestionLen == 10

MathMinLen == 15

\* IsValidQuestion with the question mark as the only indicator
IsValidQuestionMarkOnly(text) ==
    /\ Len(text) >= MinQuestionLen
    /\ \E i \in DOMAIN text : text[i] = "?"

\* r'[\+\-\*\/\=\^]+': the symbols without the digits
RxSymbols == Plus(Set({"+", "-", "*", "/", "=", "^"}))

\* IsValidQuestion with a last test that looks for a symbol only
IsValidQuestionSymbolsOnly(text) ==
    IF Len(text) < MinQuestionLen THEN FALSE
    ELSE IF \E rx \in Range(SkipPatterns) : MatchAt(rx, 0, text, 1, IgnoreCase).ok
    THEN FALSE
    ELSE IF \E i \in DOMAIN text : text[i] = "?" THEN TRUE
    ELSE \/ \E rx \in Range(QuestionIndicators) : Search(rx, LowerText(text), NoFlags)
         \/ Search(RxSymbols, text, NoFlags) /\ Len(text) > MathMinLen

\* QuestionParser._is_valid_question
IsValidQuestion(text) ==
    IF Len(text) < MinQuestionLen THEN FALSE
    ELSE IF \E rx \in Range(SkipPatterns) : MatchAt(rx, 0, text, 1, IgnoreCase).ok
    THEN FALSE
    ELSE IF \E i \in DOMAIN text : text[i] = "?" THEN TRUE
    ELSE \/ \E rx \in Range(QuestionIndicators) : Search(rx, LowerText(text), NoFlags)
         \/ Search(RxMath, text, NoFlags) /\ Len(text) > MathMinLen

\* r'\[(\d+)\s*marks?\]|\((\d+)\s*marks?\)|(\d+)\s*marks?'
RxMarks ==
    Alt(<<Cat(<<Set({"["}), Grp(1, Plus(D)), Star(S), Lit(<<"m", "a", "r", "k">>),
      Opt(Set({"s"})), Set({"]"})>>),
          Cat(<<Set({"("}), Grp(2, Plus(D)), Star(S), Lit(<<"m", "a", "r", "k">>),
      Opt(Set({"s"})), Set({")"})>>),
          Cat(<<Grp(3, Plus(D)), Star(S), Lit(<<"m", "a", "r", "k">>), Opt(Set({"s"}))>>)>>)

\* Optional[int]: None is the empty sequence, the integer n is <<n>>
None == <<>>

Some(n) == <<n>>

\* int(match.group(1) or match.group(2) or match.group(3)) for a match whose
\* groups are caps
GroupMarks(text, caps) ==
    LET got == {g \in 1 .. 3 : caps[g][2] > caps[g][1]}
    IN IF got = {} THEN None ELSE Some(ToInt(GroupText(text, caps[SetMin(got)])))

MarksOfSearch(text, m) == IF m.ok THEN GroupMarks(text, m.caps) ELSE None

\* QuestionParser._extract_marks
ExtractMarks(text) ==
    MarksOfSearch(text, SearchIn(RxMarks, 3, text, 1, Len(text) + 1, IgnoreCase))

\* r'[A-D][)\.]'
RxOptionMarker == Cat(<<Set({"A", "B", "C", "D"}), Set({")", "."})>>)

\* r'[A-D][)\.]?\s*(.+?)(?=[A-D][)\.]|\n\d+\.|\Z)'
RxOption ==
    Cat(<<Set({"A", "B", "C", "D"}), Opt(Set({")", "."})), Star(S), Grp(1, LazyPlus(Dot)),
          Look(Alt(<<RxOptionMarker, Cat(<<Set({NL}), Plus(D), Set({"."})>>), Eos>>))>>)

\* OptionTexts without opt.strip(): the option texts as matched
OptionTextsUnstripped(text, ms) ==
    SelectSeq([i \in DOMAIN ms |-> GroupText(text, ms[i].caps[1])], LAMBDA opt : Len(opt) > 0)

\* the option texts _extract_mcq_options keeps: stripped and not empty
OptionTexts(text, ms) ==
    SelectSeq([i \in DOMAIN ms |-> Strip(GroupText(text, ms[i].caps[1]))],
              LAMBDA opt : Len(opt) > 0)

MinOptions == 2

\* the None of _extract_mcq_options
NoMcq == [found |-> FALSE]

\* the options found in options_text, the text from the first marker on
OptionsIn(options_text) == OptionTexts(options_text, Matches(RxOption, 1, options_text, ML))

\* McqData content with a single option
McqDataOneEnough(text, at, options) ==
    IF Len(options) >= 1
    THEN [found |-> TRUE, question |-> Strip(SubSeq(text, 1, at - 1)), options |-> options]
    ELSE NoMcq

\* the result for the options found: a question needs at least two of them
McqData(text, at, options) ==
    IF Len(options) >= MinOptions
    THEN [found |-> TRUE, question |-> Strip(SubSeq(text, 1, at - 1)), options |-> options]
    ELSE NoMcq

McqFrom(text, marker) ==
    IF ~marker.ok THEN NoMcq
    ELSE McqData(text, marker.first, OptionsIn(SubSeq(text, marker.first, Len(text))))

\* QuestionParser._extract_mcq_options
ExtractMcqOptions(text) ==
    McqFrom(text, SearchIn(RxOptionMarker, 0, text, 1, Len(text) + 1, NoFlags))

\* The candidate _parse_numbered_questions appends for a validated q_text
NumberedRecord(q_num, q_text, mcq_data) ==
    [number   |-> q_num,
     question |-> IF mcq_data.found THEN mcq_data.question ELSE q_text,
     type     |-> IF mcq_data.found THEN "MCQ" ELSE "descriptive",
     options  |-> IF mcq_data.found THEN mcq_data.options ELSE <<>>,
     marks    |-> ExtractMarks(q_text)]

NumberedQuestion(q_num, q_text) == NumberedRecord(q_num, q_text, ExtractMcqOptions(q_text))

\* The candidate _parse_sub_questions and _parse_case_study_questions append
PlainQuestion(label, q_text, type) ==
    [number |-> label, question |-> q_text, type |-> type, options |-> <<>>,
     marks |-> ExtractMarks(q_text)]

\* r'(?:^|\n)(\d{1,2})\.\s+(.+?)(?=\n\d{1,2}\.|\nSection|\nOR\n|\nDIRECTION|\Z)'
RxNumbered ==
    Cat(<<Alt(<<Bol, Set({NL})>>), Grp(1, Rep(D, 1, 2, FALSE)), Set({"."}), Plus(S),
          Grp(2, LazyPlus(Dot)),
          Look(Alt(<<Cat(<<Set({NL}), Rep(D, 1, 2, FALSE), Set({"."})>>),
                     Lit(<<NL, "S", "e", "c", "t", "i", "o", "n">>), Lit(OrLine), Lit(<<NL, "D",
      "I", "R", "E", "C", "T", "I", "O", "N">>), Eos>>))>>)

QOrQuestion == Alt(<<Lit(<<"Q">>), Lit(<<"Q", "u", "e", "s", "t", "i", "o", "n">>)>>)

\* r'(?:^|\n)(?:Q|Question)\s*(\d{1,2})[\.:]\s*(.+?)(?=\n(?:Q|Question)\s*\d{1,2}|\nSection|\Z)'
RxQNumbered ==
    Cat(<<Alt(<<Bol, Set({NL})>>), QOrQuestion, Star(S), Grp(1, Rep(D, 1, 2, FALSE)),
          Set({".", ":"}), Star(S), Grp(2, LazyPlus(Dot)),
          Look(Alt(<<Cat(<<Set({NL}), QOrQuestion, Star(S), Rep(D, 1, 2, FALSE)>>),
                     Lit(<<NL, "S", "e", "c", "t", "i", "o", "n">>), Eos>>))>>)

\* what one match of _parse_numbered_questions appends: its candidate if the
\* cleaned text is a valid question
NumberedIfValid(q_num, q_text) ==
    IF IsValidQuestion(q_text) THEN <<NumberedQuestion(q_num, q_text)>> ELSE <<>>

\* The loop over the matches of the patterns in _parse_numbered_questions
NumberedFrom(text, ms) ==
    Concat([i \in DOMAIN ms |->
              NumberedIfValid(GroupText(text, ms[i].caps[1]),
                              CleanQuestionText(Strip(GroupText(text, ms[i].caps[2]))))])

\* the patterns of _parse_numbered_questions, in order
NumberedPatterns == <<RxNumbered, RxQNumbered>>

\* QuestionParser._parse_numbered_questions
ParseNumberedQuestions(text) ==
    NumberedFrom(text, AllMatches(NumberedPatterns, 2, text, MLDotAll))

RomanChars == {"i", "v", "x", "I", "V", "X"}

\* r'\(([A-Za-z])\)\s*(.+?)(?=\([A-Za-z]\)|\nOR\n|\n\d+\.|\Z)'
RxLettered ==
    Cat(<<Set({"("}), Grp(1, Set(Letters)), Set({")"}), Star(S), Grp(2, LazyPlus(Dot)),
          Look(Alt(<<Cat(<<Set({"("}), Set(Letters), Set({")"})>>), Lit(OrLine),
                     Cat(<<Set({NL}), Plus(D), Set({"."})>>), Eos>>))>>)

\* r'\(([ivxIVX]+)\)\s*(.+?)(?=\([ivxIVX]+\)|\n\d+\.|\Z)'
RxRoman ==
    Cat(<<Set({"("}), Grp(1, Plus(Set(RomanChars))), Set({")"}), Star(S), Grp(2, LazyPlus(Dot)),
          Look(Alt(<<Cat(<<Set({"("}), Plus(Set(RomanChars)), Set({")"})>>),
                     Cat(<<Set({NL}), Plus(D), Set({"."})>>), Eos>>))>>)

PlainIfValid(label, q_text, type) ==
    IF IsValidQuestion(q_text) THEN <<PlainQuestion(label, q_text, type)>> ELSE <<>>

\* The loop over the matches of the patterns in _parse_sub_questions (prefix "(",
\* suffix ")") and in _parse_case_study_questions (prefix "Case-", no suffix)
LabelledFrom(text, ms, prefix, suffix, type) ==
    Concat([i \in DOMAIN ms |->
              PlainIfValid(prefix \o GroupText(text, ms[i].caps[1]) \o suffix,
                           CleanQuestionText(Strip(GroupText(text, ms[i].caps[2]))), type)])

\* the patterns of _parse_sub_questions, in order
SubQuestionPatterns == <<RxLettered, RxRoman>>

\* QuestionParser._parse_sub_questions
ParseSubQuestions(text) ==
    LabelledFrom(text, AllMatches(SubQuestionPatterns, 2, text, MLDotAll), <<"(">>, <<")">>,
                 "sub-question")

CaseStudyWords == Alt(<<Lit(<<"c", "a", "s", "e", SP, "s", "t", "u", "d", "y">>), Lit(<<"C", "a",
      "s", "e", SP, "S", "t", "u", "d", "y">>), Lit(<<"C", "A", "S", "E", SP, "S", "T", "U", "D",
      "Y">>)>>)

\* r'(?:case study|Case Study|CASE STUDY).+?(?=case study|Case Study|CASE STUDY|\Z)'
RxCaseStudy == Cat(<<CaseStudyWords, LazyPlus(Dot), Look(Alt(<<CaseStudyWords, Eos>>))>>)

\* r'\(([ivx]+)\)\s*(.+?)(?=\([ivx]+\)|\Z)'
RxCasePart ==
    Cat(<<Set({"("}), Grp(1, Plus(Set({"i", "v", "x"}))), Set({")"}), Star(S),
          Grp(2, LazyPlus(Dot)),
          Look(Alt(<<Cat(<<Set({"("}), Plus(Set({"i", "v", "x"})), Set({")"})>>), Eos>>))>>)

\* the sub-questions of one case study
CaseParts(case) ==
    LabelledFrom(case, Matches(RxCasePart, 2, case, MLDotAll), <<"C", "a", "s", "e", "-">>, <<>>,
                 "case-study")

\* The loop over the case studies in _parse_case_study_questions
CaseFrom(text, cs) ==
    Concat([i \in DOMAIN cs |-> CaseParts(SubSeq(text, cs[i].first, cs[i].end - 1))])

\* QuestionParser._parse_case_study_questions
ParseCaseStudyQuestions(text) == CaseFrom(text, Matches(RxCaseStudy, 0, text, IgnoreCaseDotAll))

KeyPrefixLen == 100

MinKeyLen == 10

\* The key of _remove_duplicates: re.sub(r'[^a-zA-Z0-9]', '', q['question'][:100].lower())
QuestionKey(q) ==
    LET q_text == LowerText(Take(q.question, KeyPrefixLen))
    IN SelectSeq(q_text, LAMBDA c : c \in Letters \cup Digits)

\* the keys of the questions of a list
Keys(questions) == {QuestionKey(questions[i]) : i \in DOMAIN questions}

\* the first half of a list, and the rest of it
FirstHalf(s) == SubSeq(s, 1, Len(s) \div 2)

SecondHalf(s) == SubSeq(s, Len(s) \div 2 + 1, Len(s))

\* Unique without seen.add(q_key): a key seen before is kept again
UniqueForgetful(questions, seen) ==
    SelectSeq(questions, LAMBDA q : Len(QuestionKey(q)) > MinKeyLen)

\* Unique without the test len(q_key) > 10: a key of any length is kept
RECURSIVE UniqueAnyLength(_, _)
UniqueAnyLength(questions, seen) ==
    IF questions = <<>> THEN <<>>
    ELSE IF Len(questions) = 1
    THEN (IF QuestionKey(questions[1]) \notin seen THEN questions ELSE <<>>)
    ELSE LET kept == UniqueAnyLength(FirstHalf(questions), seen)
         IN kept \o UniqueAnyLength(SecondHalf(questions), seen \cup Keys(kept))

\* Unique with the test len(q_key) >= 10: a key of exactly 10 is kept
RECURSIVE UniqueFromTen(_, _)
UniqueFromTen(questions, seen) ==
    IF questions = <<>> THEN <<>>
    ELSE IF Len(questions) = 1
    THEN (IF QuestionKey(questions[1]) \notin seen /\ Len(QuestionKey(questions[1])) >= MinKeyLen
          THEN questions ELSE <<>>)
    ELSE LET kept == UniqueFromTen(FirstHalf(questions), seen)
         IN kept \o UniqueFromTen(SecondHalf(questions), seen \cup Keys(kept))

\* The loop of _remove_duplicates over questions, seen holding the keys of the
\* questions kept before: a question whose key is new and longer than 10 is
\* kept and its key added to seen (the loop is taken by halves, the second
\* half with the keys the first half added)
RECURSIVE Unique(_, _)
Unique(questions, seen) ==
    IF questions = <<>> THEN <<>>
    ELSE IF Len(questions) = 1
    THEN (IF QuestionKey(questions[1]) \notin seen /\ Len(QuestionKey(questions[1])) > MinKeyLen
          THEN questions ELSE <<>>)
    ELSE LET kept == Unique(FirstHalf(questions), seen)
         IN kept \o Unique(SecondHalf(questions), seen \cup Keys(kept))

\* _remove_duplicates for a parser that returns every candidate of the passes
RemoveNothing(questions) == questions

\* _remove_duplicates with unique.insert(0, q) in place of unique.append(q):
\* the questions kept come out newest first
RemoveDuplicatesNewestFirst(questions) ==
    LET unique == Unique(questions, {})
    IN [i \in DOMAIN unique |-> unique[Len(unique) + 1 - i]]

\* QuestionParser._remove_duplicates
RemoveDuplicates(questions) == Unique(questions, {})

\* A list that stays what an earlier call of parse_questions left in it
KeptQuestions(earlier) == earlier

\* questions = []: the list parse_questions starts with, whatever an earlier
\* call left in its own
NewQuestions(earlier) == <<>>

MaxQuestions == 50

\* the merged list parse_questions hands to _remove_duplicates
AllQuestions(cleaned) ==
    ParseNumberedQuestions(cleaned) \o ParseSubQuestions(cleaned)
      \o ParseCaseStudyQuestions(cleaned)

MergedQuestions(text) == AllQuestions(CleanText(text))

\* Truncated without the limit
Untruncated(unique_questions) == unique_questions

\* unique_questions[:50]
Truncated(unique_questions) == Take(unique_questions, MaxQuestions)

\* QuestionParser.parse_questions
ParseQuestions(text) == Truncated(RemoveDuplicates(MergedQuestions(text)))

-----------------------------------------------------------------------------
(* format_parsed_questions                                                 *)

\* chr(65 + j) for the j-th option, j counted from 1 here
OptionLetter(j) == UpperSeq[j]

\* '\n'.join([f'{chr(65+j)}) {opt}' for j, opt in enumerate(q['options'])])
RECURSIVE OptionsText(_, _)
OptionsText(options, j) ==
    IF j > Len(options) THEN <<>>
    ELSE (IF j > 1 THEN <<NL>> ELSE <<>>) \o <<OptionLetter(j), ")", SP>> \o options[j]
           \o OptionsText(options, j + 1)

\* one formatted_q of format_parsed_questions
FormatQuestion(q) ==
    [question        |-> IF Len(q.options) > 0
                         THEN q.question \o <<NL, NL, "O", "p", "t", "i", "o", "n", "s", ":",
      NL>> \o OptionsText(q.options, 1)
                         ELSE q.question,
     original_number |-> q.number,
     type            |-> q.type,
     marks           |-> q.marks]

\* format_parsed_questions
FormatParsedQuestions(questions) == [i \in DOMAIN questions |-> FormatQuestion(questions[i])]

\* ArgumentAfterFormat for a format_parsed_questions that writes the text with
\* the options into q['question'] of the candidate itself
ArgumentFormattedInPlace(questions) ==
    [i \in DOMAIN questions |->
       [questions[i] EXCEPT !.question = FormatQuestion(questions[i]).question]]

\* The list format_parsed_questions was called with, once it has returned:
\* every candidate q is only read (q.get, q['question'], q['options']); what is
\* written is the new dict formatted_q
ArgumentAfterFormat(questions) == questions

-----------------------------------------------------------------------------
(* QuestionSolver                                                          *)

\* the value of the module variable gemini_model before initialize_gemini
NoModel == "None"

GeminiPro == "gemini-pro"

NotAvailableText == <<"A", "I", SP, "s", "e", "r", "v", "i", "c", "e", SP, "i", "s", SP, "n",
      "o", "t", SP, "a", "v", "a", "i", "l", "a", "b", "l", "e", ".">>

FailedText == <<"F", "a", "i", "l", "e", "d", SP, "t", "o", SP, "g", "e", "n", "e", "r", "a",
      "t", "e", SP, "s", "o", "l", "u", "t", "i", "o", "n", ".">>

ErrorPrefix == <<"E", "r", "r", "o", "r", SP, "g", "e", "n", "e", "r", "a", "t", "i", "n", "g",
      SP, "s", "o", "l", "u", "t", "i", "o", "n", ":", SP>>

UnableText == <<"U", "n", "a", "b", "l", "e", SP, "t", "o", SP, "g", "e", "n", "e", "r", "a",
      "t", "e", SP, "s", "o", "l", "u", "t", "i", "o", "n", SP, "f", "o", "r", SP, "t", "h", "i",
      "s", SP, "q", "u", "e", "s", "t", "i", "o", "n", ".">>

SolutionGenerated == <<"S", "o", "l", "u", "t", "i", "o", "n", SP, "g", "e", "n", "e", "r", "a",
      "t", "e", "d">>

\* the backtick
BackTick == "U+0060"

FenceJson == <<BackTick, BackTick, BackTick, "j", "s", "o", "n">>

Fence == <<BackTick, BackTick, BackTick>>

\* text.split(sep)[1], for a text that holds sep
SplitSecond(text, sep) ==
    LET rest == SubSeq(text, FindLit(sep, text) + Len(sep), Len(text))
        next == FindLit(sep, rest)
    IN IF next > 0 THEN SubSeq(rest, 1, next - 1) ELSE rest

\* text.split(sep)[0]
SplitFirst(text, sep) ==
    LET at == FindLit(sep, text)
    IN IF at > 0 THEN SubSeq(text, 1, at - 1) ELSE text

\* StripFence without the elif branch: only a fence tagged json is stripped
StripFenceJsonOnly(response_text) ==
    IF FindLit(FenceJson, response_text) > 0
    THEN SplitFirst(SplitSecond(response_text, FenceJson), Fence)
    ELSE response_text

\* The fence stripping of solve_academic_question
StripFence(response_text) ==
    IF FindLit(FenceJson, response_text) > 0
    THEN SplitFirst(SplitSecond(response_text, FenceJson), Fence)
    ELSE IF FindLit(Fence, response_text) > 0
    THEN SplitFirst(SplitSecond(response_text, Fence), Fence)
    ELSE response_text

\* SplitLines as text.split('\n', 1): the text is cut at its first newline only
SplitLinesOnce(text) ==
    LET at == FindLit(<<NL>>, text)
    IN IF at = 0 THEN <<text>> ELSE <<SubSeq(text, 1, at - 1), SubSeq(text, at + 1, Len(text))>>

\* text.split('\n')
RECURSIVE SplitLines(_)
SplitLines(text) ==
    LET at == FindLit(<<NL>>, text)
    IN IF at = 0 THEN <<text>>
       ELSE <<SubSeq(text, 1, at - 1)>> \o SplitLines(SubSeq(text, at + 1, Len(text)))

\* The JSON documents among the sample responses and what json.loads makes of
\* them; every other sample text is no JSON document (JSONDecodeError)
JsonFull ==
    <<"{", "\"", "s", "o", "l", "u", "t", "i", "o", "n", "\"", ":", "\"", "x", "\"", ",", "\"",
      "s", "t", "e", "p", "s", "\"", ":", "[", "\"", "s", "1", "\"", "]", ",", "\"", "f", "i",
      "n", "a", "l", "_", "a", "n", "s", "w", "e", "r", "\"", ":", "\"", "4", "\"", ",", "\"",
      "e", "x", "p", "l", "a", "n", "a", "t", "i", "o", "n", "\"", ":", "\"", "e", "\"", "}">>

JsonSolutionOnly == <<"{", "\"", "s", "o", "l", "u", "t", "i", "o", "n", "\"", ":", "\"", "a",
      "<", "b", "\"", "}">>

JsonArray == <<"[", "1", "]">>

JsonDocuments ==
    {[text |-> JsonFull, kind |-> "object",
      value |-> [solution |-> <<"x">>, steps |-> << <<"s", "1">> >>,
                 final_answer |-> <<"4">>, explanation |-> <<"e">>]],
     [text |-> JsonSolutionOnly, kind |-> "object",
      value |-> [solution |-> <<"a", "<", "b">>]],
     [text |-> JsonArray, kind |-> "array", value |-> <<1>>]}

\* json.loads: [ok, kind, value]; leading and trailing whitespace is allowed
JsonLoads(text) ==
    LET docs == {d \in JsonDocuments : d.text = Strip(text)}
    IN IF docs = {} THEN [ok |-> FALSE]
       ELSE LET d == CHOOSE d \in docs : TRUE
            IN [ok |-> TRUE, kind |-> d.kind, value |-> d.value]

\* dict.get(key, default) on a decoded JSON object
Get(obj, key, default) == IF key \in DOMAIN obj THEN obj[key] ELSE default

\* str(e) of the AttributeError raised by solution_data.get on a decoded list
ListHasNoGet == <<"'", "l", "i", "s", "t", "'", SP, "o", "b", "j", "e", "c", "t", SP, "h", "a",
      "s", SP, "n", "o", SP, "a", "t", "t", "r", "i", "b", "u", "t", "e", SP, "'", "g", "e", "t",
      "'">>

Solution(solution, steps, final_answer, explanation) ==
    [solution |-> solution, steps |-> steps, final_answer |-> final_answer,
     explanation |-> explanation]

\* 'detailed' if marks >= 3 else 'concise'
DetailedFrom == 3

\* DetailLevel with > in place of >=
DetailLevelAbove(marks) == IF marks > DetailedFrom THEN "detailed" ELSE "concise"

DetailLevel(marks) == IF marks >= DetailedFrom THEN "detailed" ELSE "concise"

\* What the prompt of solve_academic_question is built from
Prompt(question, subject, class_level, question_number, question_type, marks) ==
    [subject |-> subject, class_level |-> class_level, question_number |-> question_number,
     question_type |-> question_type,
     marks |-> IF marks = None THEN 1 ELSE marks[1],
     question |-> question,
     detail_level |-> DetailLevel(IF marks = None THEN 1 ELSE marks[1])]

\* OnException answering with the text of the fallback of
\* solve_questions_enhanced
OnExceptionUnable(message) == Solution(UnableText, <<>>, <<>>, <<>>)

\* The except branch of solve_academic_question, message being str(e)
OnException(message) == Solution(ErrorPrefix \o message, <<>>, <<>>, <<>>)

\* HandleResponse for a solver that treats every decoded value that is no
\* object as text that did not decode
HandleResponseObjectsOnly(r) ==
    IF r.raises THEN OnException(r.message)
    ELSE IF r.text = <<>> THEN Solution(FailedText, <<>>, <<>>, <<>>)
    ELSE LET response_text == StripFence(r.text)
             solution_data == JsonLoads(response_text)
         IN IF ~solution_data.ok \/ solution_data.kind # "object"
            THEN Solution(response_text,
                          IF FindLit(<<NL>>, response_text) > 0 THEN SplitLines(response_text)
                          ELSE <<response_text>>,
                          <<>>, <<>>)
            ELSE Solution(Get(solution_data.value, "solution", SolutionGenerated),
                          Get(solution_data.value, "steps", <<>>),
                          Get(solution_data.value, "final_answer", <<>>),
                          Get(solution_data.value, "explanation", <<>>))

\* The try block of solve_academic_question, for the outcome r of
\* gemini_model.generate_content(prompt): [raises, message, text]
HandleResponse(r) ==
    IF r.raises THEN OnException(r.message)
    ELSE IF r.text = <<>> THEN Solution(FailedText, <<>>, <<>>, <<>>)
    ELSE LET response_text == StripFence(r.text)
             solution_data == JsonLoads(response_text)
         IN IF ~solution_data.ok
            THEN Solution(response_text,
                          IF FindLit(<<NL>>, response_text) > 0 THEN SplitLines(response_text)
                          ELSE <<response_text>>,
                          <<>>, <<>>)
            ELSE IF solution_data.kind # "object"
            THEN OnException(ListHasNoGet)
            ELSE Solution(Get(solution_data.value, "solution", SolutionGenerated),
                          Get(solution_data.value, "steps", <<>>),
                          Get(solution_data.value, "final_answer", <<>>),
                          Get(solution_data.value, "explanation", <<>>))

\* QuestionSolver.solve_academic_question, with the module's gemini_model and
\* the outcome r of the call of the model (which is made only with a model)
\* SolveAcademicQuestion without the test `if not gemini_model`: the response
\* is handled whether or not a model is set
SolveAcademicQuestionUnguarded(model, r) == HandleResponse(r)

SolveAcademicQuestion(model, r) ==
    IF model = NoModel THEN Solution(NotAvailableText, <<>>, <<>>, <<>>)
    ELSE HandleResponse(r)

\* SolvedRecord with the label taken from the position in the list alone
\* (str(i) in place of q.get('original_number', str(i)))
SolvedRecordByIndex(i, q, solution) ==
    [number       |-> ToStr(i),
     question     |-> q.question,
     type         |-> q.type,
     marks        |-> IF q.marks = None THEN Some(1) ELSE q.marks,
     solution     |-> solution.solution,
     steps        |-> solution.steps,
     final_answer |-> solution.final_answer,
     explanation  |-> solution.explanation]

\* the record solve_questions_enhanced appends for q, the i-th question, when
\* the call returned
SolvedRecord(i, q, solution) ==
    [number       |-> Get(q, "original_number", ToStr(i)),
     question     |-> q.question,
     type         |-> q.type,
     marks        |-> IF q.marks = None THEN Some(1) ELSE q.marks,
     solution     |-> solution.solution,
     steps        |-> solution.steps,
     final_answer |-> solution.final_answer,
     explanation  |-> solution.explanation]

\* the record solve_questions_enhanced appends for q in its except branch
\* (q.get('marks', 1) is the stored value, None included: the key is there)
FallbackRecord(i, q) ==
    [number       |-> Get(q, "original_number", ToStr(i)),
     question     |-> q.question,
     type         |-> q.type,
     marks        |-> q.marks,
     solution     |-> UnableText,
     steps        |-> <<>>,
     final_answer |-> <<>>,
     explanation  |-> <<>>]

\* Whether the try block of the loop of solve_questions_enhanced raises once
\* solve_academic_question has returned: solution['solution'] is subscripted
\* (every formatted question has its 'question')
AppendRaises(solution) == "solution" \notin DOMAIN solution

\* What one pass of the loop appends for q once solve_academic_question has
\* returned solution
LoopResult(i, q, solution) ==
    IF AppendRaises(solution) THEN FallbackRecord(i, q) ELSE SolvedRecord(i, q, solution)

\* The record one pass of the loop of solve_questions_enhanced appends for q,
\* the i-th question: solve_academic_question returns a solution in every case,
\* its own try block turning what the model raises into one
LoopRecord(i, q, model, r) == LoopResult(i, q, SolveAcademicQuestion(model, r))

-----------------------------------------------------------------------------
(* QuestionExtractor                                                       *)

\* A file is [ext, big, corrupt, parts]: its extension, whether it exceeds
\* MAX_FILE_SIZE, whether the library fails to read it, and the texts the
\* library finds in it (pages, paragraphs, or the one text OCR returns).

RECURSIVE JoinParts(_)
JoinParts(parts) ==
    IF parts = <<>> THEN <<>> ELSE Head(parts) \o <<NL>> \o JoinParts(Tail(parts))

\* the result of an adapter: the text, or the HTTPException(400) it raises
Extracted(text) == [ok |-> TRUE, text |-> text]

ExtractionError == [ok |-> FALSE, status |-> 400]

\* QuestionExtractor.extract_from_pdf
ExtractFromPdf(file) ==
    IF file.corrupt THEN ExtractionError ELSE Extracted(Strip(JoinParts(file.parts)))

\* QuestionExtractor.extract_from_docx, for a document without tables
ExtractFromDocx(file) ==
    IF file.corrupt THEN ExtractionError ELSE Extracted(Strip(JoinParts(file.parts)))

\* extract_from_image for an adapter that returns whatever OCR found
ExtractFromImageUnchecked(file) ==
    IF file.corrupt THEN ExtractionError
    ELSE Extracted(Strip(Sub(Plus(Set({NL})), <<NL>>, JoinParts(file.parts), NoFlags)))

\* QuestionExtractor.extract_from_image
ExtractFromImage(file) ==
    IF file.corrupt THEN ExtractionError
    ELSE LET text == Strip(Sub(Plus(Set({NL})), <<NL>>, JoinParts(file.parts), NoFlags))
         IN IF text = <<>> THEN ExtractionError ELSE Extracted(text)

PdfExts == {".pdf"}

DocxExts == {".docx", ".doc"}

ImageExts == {".png", ".jpg", ".jpeg"}

\* ALLOWED_EXTENSIONS
AllowedExtensions == PdfExts \cup DocxExts \cup ImageExts

-----------------------------------------------------------------------------
(* PDFGenerator                                                            *)

\* text.replace('&', '&amp;').replace('<', '&lt;').replace('>', '&gt;')
Escape(text) ==
    Concat([i \in DOMAIN text |->
              CASE text[i] = "&" -> <<"&", "a", "m", "p", ";">>
                [] text[i] = "<" -> <<"&", "l", "t", ";">>
                [] text[i] = ">" -> <<"&", "g", "t", ";">>
                [] OTHER -> <<text[i]>>])

\* sum(q.get('marks', 0) for q in solved_questions if q.get('marks') is not None)
RECURSIVE TotalMarks(_)
TotalMarks(solved) ==
    IF solved = <<>> THEN 0
    ELSE (IF Head(solved).marks # None THEN Head(solved).marks[1] ELSE 0)
           + TotalMarks(Tail(solved))

\* datetime.now().strftime('%B %d, %Y') on the day of the run
Today == <<"N", "o", "v", "e", "m", "b", "e", "r", SP, "0", "1", ",", SP, "2", "0", "2", "6">>

Para(text, style) == [kind |-> "Paragraph", text |-> text, style |-> style]

Spacer == [kind |-> "Spacer"]

LineTable == [kind |-> "Table"]

\* The metadata paragraph of generate_enhanced_pdf:
\* <para align="center"><b>Student:</b> ...<br/><b>Date:</b> ...<br/>
\* <b>Total Questions:</b> ...<br/><b>Total Marks:</b> ...</para>
Metadata(student_name, total_questions, total_marks) ==
    <<"<", "p", "a", "r", "a", SP, "a", "l", "i", "g", "n", "=", "\"", "c", "e", "n", "t",
      "e", "r", "\"", ">", "<", "b", ">", "S", "t", "u", "d", "e", "n", "t", ":", "<", "/",
      "b", ">", SP>> \o student_name
      \o <<"<", "b", "r", "/", ">", "<", "b", ">", "D", "a", "t", "e", ":", "<", "/", "b",
            ">", SP>> \o Today
      \o <<"<", "b", "r", "/", ">", "<", "b", ">", "T", "o", "t", "a", "l", SP, "Q", "u",
            "e", "s", "t", "i", "o", "n", "s", ":", "<", "/", "b", ">",
            SP>> \o ToStr(total_questions)
      \o <<"<", "b", "r", "/", ">", "<", "b", ">", "T", "o", "t", "a", "l", SP, "M", "a",
            "r", "k", "s", ":", "<", "/", "b", ">",
            SP>> \o ToStr(total_marks) \o <<"<", "/", "p", "a", "r", "a", ">">>

\* The title and metadata elements generate_enhanced_pdf starts with
HeaderElements(solved, student_name, subject, class_level) ==
    <<Para(subject \o <<SP, "S", "o", "l", "u", "t", "i", "o", "n", "s", SP, "-", SP, "C", "l",
          "a", "s", "s", SP>> \o ToStr(class_level), "CustomTitle"),
      Para(Metadata(student_name, Len(solved), TotalMarks(solved)), "Normal"),
      Spacer>>

\* f" [{q_marks} marks]" if q_marks else ""
MarksText(q) ==
    IF q.marks # None /\ q.marks[1] # 0
    THEN <<SP, "[">> \o ToStr(q.marks[1]) \o <<SP, "m", "a", "r", "k", "s", "]">>
    ELSE <<>>

\* the bullet of a step paragraph
Bullet == "U+2022"

RECURSIVE StepParagraphs(_)
StepParagraphs(steps) ==
    IF steps = <<>> THEN <<>>
    ELSE <<Para(Escape(<<Bullet, SP>> \o Head(steps)), "Solution")>>
           \o StepParagraphs(Tail(steps))

\* QuestionElements for a renderer that writes the solution text after the
\* steps as well
QuestionElementsBoth(q) ==
    <<Para(Escape(<<"<", "b", ">", "Q", "u", "e", "s", "t", "i", "o", "n",
          SP>> \o q.number \o MarksText(q) \o <<":", "<", "/", "b", ">", SP>> \o q.question),
           "Question"),
      Spacer,
      Para(<<"<", "b", ">", "S", "o", "l", "u", "t", "i", "o", "n", ":", "<", "/", "b", ">">>,
            "CustomHeading")>>
    \o StepParagraphs(q.steps)
    \o <<Para(Escape(q.solution), "Solution")>>
    \o (IF q.final_answer # <<>>
        THEN <<Para(Escape(<<"<", "b", ">", "F", "i", "n", "a", "l", SP, "A", "n", "s", "w", "e",
              "r", ":", "<", "/", "b", ">", SP>> \o q.final_answer), "Answer")>>
        ELSE <<>>)
    \o (IF q.explanation # <<>>
        THEN <<Para(<<"<", "b", ">", "E", "x", "p", "l", "a", "n", "a", "t", "i", "o", "n", ":",
              "<", "/", "b", ">">>, "CustomHeading"),
               Para(Escape(q.explanation), "Solution")>>
        ELSE <<>>)
    \o <<Spacer, LineTable, Spacer>>

\* The elements generate_enhanced_pdf appends for one solved question
QuestionElements(q) ==
    <<Para(Escape(<<"<", "b", ">", "Q", "u", "e", "s", "t", "i", "o", "n",
          SP>> \o q.number \o MarksText(q) \o <<":", "<", "/", "b", ">", SP>> \o q.question),
           "Question"),
      Spacer,
      Para(<<"<", "b", ">", "S", "o", "l", "u", "t", "i", "o", "n", ":", "<", "/", "b", ">">>,
            "CustomHeading")>>
    \o (IF Len(q.steps) > 0 THEN StepParagraphs(q.steps)
        ELSE <<Para(Escape(q.solution), "Solution")>>)
    \o (IF q.final_answer # <<>>
        THEN <<Para(Escape(<<"<", "b", ">", "F", "i", "n", "a", "l", SP, "A", "n", "s", "w", "e",
              "r", ":", "<", "/", "b", ">", SP>> \o q.final_answer), "Answer")>>
        ELSE <<>>)
    \o (IF q.explanation # <<>>
        THEN <<Para(<<"<", "b", ">", "E", "x", "p", "l", "a", "n", "a", "t", "i", "o", "n", ":",
              "<", "/", "b", ">">>, "CustomHeading"),
               Para(Escape(q.explanation), "Solution")>>
        ELSE <<>>)
    \o <<Spacer, LineTable, Spacer>>

-----------------------------------------------------------------------------
(* The inputs of the model                                                 *)

\* the longest file, in pages (paragraphs, OCR blocks)
MaxPages == 2

\* "hello world": a page without a question
PageNoQuestion == <<"h", "e", "l", "l", "o", SP, "w", "o", "r", "l", "d">>

\* "1. Define inertia for 3 marks here": a question that carries its marks
PageMarked == <<"1", ".", SP, "D", "e", "f", "i", "n", "e", SP, "i", "n", "e", "r", "t", "i",
      "a", SP, "f", "o", "r", SP, "3", SP, "m", "a", "r", "k", "s", SP, "h", "e", "r", "e">>

\* "2. Which colour is it? A) Red B) Blue": a multiple-choice question without marks
PageMcq == <<"2", ".", SP, "W", "h", "i", "c", "h", SP, "c", "o", "l", "o", "u", "r", SP, "i",
      "s", SP, "i", "t", "?", SP, "A", ")", SP, "R", "e", "d", SP, "B", ")", SP, "B", "l", "u",
      "e">>

PageTexts == {PageNoQuestion, PageMarked, PageMcq}

RECURSIVE SeqsUpTo(_, _)
SeqsUpTo(X, n) ==
    IF n = 0 THEN {<<>>}
    ELSE LET shorter == SeqsUpTo(X, n - 1)
         IN shorter \cup {Append(s, x) : s \in {t \in shorter : Len(t) = n - 1}, x \in X}

\* The texts parse_questions is run on.  A line is a marker and a body; a text
\* is up to MaxLines lines.
MaxLines == 2

\* the numbered marker "1. " and the sub-question marker "(a) "
NumberedMarker == <<"1", ".", SP>>

SubMarker == <<"(", "a", ")", SP>>

Markers == {NumberedMarker, SubMarker}

\* "What is the capital of France?": a plain question
BodyPlain ==
    <<"W", "h", "a", "t", SP, "i", "s", SP, "t", "h", "e", SP, "c", "a", "p", "i", "t", "a",
      "l", SP, "o", "f", SP, "F", "r", "a", "n", "c", "e", "?">>

\* "Why? A) red car B) blue car": a multiple-choice question with a short stem
BodyShortStem ==
    <<"W", "h", "y", "?", SP, "A", ")", SP, "r", "e", "d", SP, "c", "a", "r", SP, "B", ")", SP,
      "b", "l", "u", "e", SP, "c", "a", "r">>

\* "Which is right? A) Delhi or Chennai": a question with one option marker
BodyOneMarker ==
    <<"W", "h", "i", "c", "h", SP, "i", "s", SP, "r", "i", "g", "h", "t", "?", SP, "A", ")",
      SP, "D", "e", "l", "h", "i", SP, "o", "r", SP, "C", "h", "e", "n", "n", "a", "i">>

\* "Which colour is it? A) Red B) Blue": a multiple-choice question
BodyMcq ==
    <<"W", "h", "i", "c", "h", SP, "c", "o", "l", "o", "u", "r", SP, "i", "s", SP, "i", "t",
      "?", SP, "A", ")", SP, "R", "e", "d", SP, "B", ")", SP, "B", "l", "u", "e">>

Bodies == {BodyPlain, BodyShortStem, BodyOneMarker, BodyMcq}

Lines == {m \o b : m \in Markers, b \in Bodies}

\* '\n'.join(lines)
JoinLines(lines) ==
    Concat([i \in DOMAIN lines |-> (IF i > 1 THEN <<NL>> ELSE <<>>) \o lines[i]])

LineTexts == {JoinLines(ls) : ls \in SeqsUpTo(Lines, MaxLines)}

\* "Case Study 1\n(i) What is the profit on ten pens?\n2. Find the loss on two
\* pens": a case study with one part, followed by a numbered question
CaseStudyText ==
    <<"C", "a", "s", "e", SP, "S", "t", "u", "d", "y", SP, "1", NL, "(", "i", ")", SP, "W",
      "h", "a", "t", SP, "i", "s", SP, "t", "h", "e", SP, "p", "r", "o", "f", "i", "t", SP,
      "o", "n", SP, "t", "e", "n", SP, "p", "e", "n", "s", "?", NL, "2", ".", SP, "F", "i",
      "n", "d", SP, "t", "h", "e", SP, "l", "o", "s", "s", SP, "o", "n", SP, "t", "w", "o", SP,
      "p", "e", "n", "s">>

\* the number of numbered questions of the long paper
PaperSize == 51

\* the i-th line of the long paper: "<i>. Find the value of k<i>z"
PaperLine(i) ==
    ToStr(i) \o <<".", SP, "F", "i", "n", "d", SP, "t", "h", "e", SP, "v", "a", "l", "u", "e", SP,
                   "o", "f", SP, "k">> \o ToStr(i) \o <<"z">>

\* the long paper: PaperSize numbered questions, then the sub-question
\* "(a) What is the capital of France?"
LongPaper ==
    JoinLines([i \in 1 .. PaperSize |-> PaperLine(i)] \o <<SubMarker \o BodyPlain>>)

\* The papers of numbered plain lines.  A body is a question without option
\* markers, marks or sub-question labels; the i-th line of a paper is
\* "<i>. <body>".

\* "What is 2+2?": its key "whatis22" has 8 characters
BodySum ==
    <<"W", "h", "a", "t", SP, "i", "s", SP, "2", "+", "2", "?">>

\* "Explain photosynthesis in one sentence."
BodyExplain ==
    <<"E", "x", "p", "l", "a", "i", "n", SP, "p", "h", "o", "t", "o", "s", "y", "n", "t", "h",
      "e", "s", "i", "s", SP, "i", "n", SP, "o", "n", "e", SP, "s", "e", "n", "t", "e", "n", "c",
      "e", ".">>

\* "Explain photosynthesis in one sentence!": another body with the key of BodyExplain
BodyExplainAgain ==
    <<"E", "x", "p", "l", "a", "i", "n", SP, "p", "h", "o", "t", "o", "s", "y", "n", "t", "h",
      "e", "s", "i", "s", SP, "i", "n", SP, "o", "n", "e", SP, "s", "e", "n", "t", "e", "n", "c",
      "e", "!">>

\* "Why is it red?": its key "whyisitred" has 10 characters
BodyKeyTen ==
    <<"W", "h", "y", SP, "i", "s", SP, "i", "t", SP, "r", "e", "d", "?">>

\* "Why is it blue?": its key "whyisitblue" has 11 characters
BodyKeyEleven ==
    <<"W", "h", "y", SP, "i", "s", SP, "i", "t", SP, "b", "l", "u", "e", "?">>

PlainBodies == {BodySum, BodyExplain, BodyExplainAgain, BodyKeyTen}

PlainPapers == SeqsUpTo(PlainBodies, MaxLines) \ {<<>>}

NumberedLine(n, body) == ToStr(n) \o <<".", SP>> \o body

PlainText(bodies) == JoinLines([i \in DOMAIN bodies |-> NumberedLine(i, bodies[i])])

PlainTexts == {PlainText(bodies) : bodies \in PlainPapers}

\* Scenario A: "1. What is 2+2?\n2. Explain photosynthesis in one sentence."
ScenarioA == PlainText(<<BodySum, BodyExplain>>)

\* "1. Why is it blue?"
KeyElevenText == NumberedLine(1, BodyKeyEleven)

\* The papers of one multiple-choice question: question 3, a stem and the
\* options A) Red B) Blue C) Green D) Yellow, each option after a separator

\* "Which colour is it?"
StemLong ==
    <<"W", "h", "i", "c", "h", SP, "c", "o", "l", "o", "u", "r", SP, "i", "s", SP, "i", "t",
      "?">>

\* "Why is it?": its key "whyisit" has 7 characters
StemShort ==
    <<"W", "h", "y", SP, "i", "s", SP, "i", "t", "?">>

Stems == {StemLong, StemShort}

ColourOptions ==
    <<<<"R", "e", "d">>, <<"B", "l", "u", "e">>, <<"G", "r", "e", "e", "n">>,
      <<"Y", "e", "l", "l", "o", "w">>>>

OptionSeparators == {<<SP>>, <<NL>>}

McqPapers == [stem : Stems, sep : OptionSeparators]

McqText(paper) ==
    NumberedLine(3, paper.stem)
      \o Concat([j \in DOMAIN ColourOptions |->
                    paper.sep \o <<UpperSeq[j], ")", SP>> \o ColourOptions[j]])

McqTexts == {McqText(paper) : paper \in McqPapers}

\* The papers of one numbered line whose body has at most one of the signals
\* _is_valid_question looks for
\* "Take the 3 big red boxes": a digit, no symbol, no token
BodyDigits == <<"T", "a", "k", "e", SP, "t", "h", "e", SP, "3", SP, "b", "i", "g", SP, "r", "e",
      "d", SP, "b", "o", "x", "e", "s">>

\* "Take the big red boxes": no signal at all
BodyNoSignal == <<"T", "a", "k", "e", SP, "t", "h", "e", SP, "b", "i", "g", SP, "r", "e", "d",
      SP, "b", "o", "x", "e", "s">>

\* "If it rains then go home": 'if' before 'then'
BodyIfThen == <<"I", "f", SP, "i", "t", SP, "r", "a", "i", "n", "s", SP, "t", "h", "e", "n", SP,
      "g", "o", SP, "h", "o", "m", "e">>

\* "Take 3 boxes": a digit in 12 characters
BodyShortDigits == <<"T", "a", "k", "e", SP, "3", SP, "b", "o", "x", "e", "s">>

\* "Let a = b + c always": symbols in 20 characters
BodySymbol == <<"L", "e", "t", SP, "a", SP, "=", SP, "b", SP, "+", SP, "c", SP, "a", "l", "w",
      "a", "y", "s">>

\* "Use a+b now": a symbol in 11 characters
BodyShortSymbol == <<"U", "s", "e", SP, "a", "+", "b", SP, "n", "o", "w">>

\* "Answer the 3 questions now": a digit after the header 'Answer'
BodyHeader == <<"A", "n", "s", "w", "e", "r", SP, "t", "h", "e", SP, "3", SP, "q", "u", "e",
      "s", "t", "i", "o", "n", "s", SP, "n", "o", "w">>

SignalBodies ==
    {BodyDigits, BodyNoSignal, BodyIfThen, BodyShortDigits, BodySymbol, BodyShortSymbol,
     BodyHeader}

SignalTexts == {NumberedLine(1, body) : body \in SignalBodies}

\* The papers of one numbered question that carries a marks annotation after
\* its body
\* "Define inertia and momentum"
StemInertia == <<"D", "e", "f", "i", "n", "e", SP, "i", "n", "e", "r", "t", "i", "a", SP, "a",
      "n", "d", SP, "m", "o", "m", "e", "n", "t", "u", "m">>

\* "[3 marks]"
NoteBracket == <<"[", "3", SP, "m", "a", "r", "k", "s", "]">>

\* "(3 marks)"
NoteParen == <<"(", "3", SP, "m", "a", "r", "k", "s", ")">>

\* "3 marks": the annotation that ends the text
NoteTrailing == <<"3", SP, "m", "a", "r", "k", "s">>

MarkNotes == {NoteBracket, NoteParen, NoteTrailing}

MarkedText(note) == NumberedLine(1, StemInertia \o <<SP>> \o note)

MarkedTexts == {MarkedText(note) : note \in MarkNotes}

\* The papers of case studies.  A part is [numeral, body]: the line
\* "(<numeral>) <body>"; a study is a heading line followed by its parts
\* "What is the profit on ten pens?"
BodyProfit == <<"W", "h", "a", "t", SP, "i", "s", SP, "t", "h", "e", SP, "p", "r", "o", "f",
      "i", "t", SP, "o", "n", SP, "t", "e", "n", SP, "p", "e", "n", "s", "?">>

\* "Find the loss on two pens"
BodyLoss == <<"F", "i", "n", "d", SP, "t", "h", "e", SP, "l", "o", "s", "s", SP, "o", "n", SP,
      "t", "w", "o", SP, "p", "e", "n", "s">>

\* "Case Study 1"
CaseHeadingOne == <<"C", "a", "s", "e", SP, "S", "t", "u", "d", "y", SP, "1">>

\* "Case Study 2"
CaseHeadingTwo == <<"C", "a", "s", "e", SP, "S", "t", "u", "d", "y", SP, "2">>

PartOne == [numeral |-> <<"i">>, body |-> BodyProfit]

PartTwo == [numeral |-> <<"i", "i">>, body |-> BodyLoss]

PartOneAgain == [numeral |-> <<"i">>, body |-> BodyLoss]

PartLine(part) == <<"(">> \o part.numeral \o <<")", SP>> \o part.body

\* a study of one part; a study of two parts; two studies of one part each;
\* and CaseStudyText, whose study of one part is followed by a numbered question
CasePapers ==
    {[text |-> JoinLines(<<CaseHeadingOne, PartLine(PartOne)>>), parts |-> <<PartOne>>],
     [text |-> JoinLines(<<CaseHeadingOne, PartLine(PartOne), PartLine(PartTwo)>>),
      parts |-> <<PartOne, PartTwo>>],
     [text |-> JoinLines(<<CaseHeadingOne, PartLine(PartOne), CaseHeadingTwo,
                           PartLine(PartOneAgain)>>),
      parts |-> <<PartOne, PartOneAgain>>],
     [text |-> CaseStudyText, parts |-> <<PartOne>>]}

CaseTexts == {paper.text : paper \in CasePapers}

ParseTexts ==
    LineTexts \cup {LongPaper} \cup PlainTexts \cup {KeyElevenText} \cup McqTexts
      \cup SignalTexts \cup MarkedTexts \cup CaseTexts

\* Path(file.filename).suffix.lower() of the uploads: one extension of each
\* adapter and one that is not allowed
Extensions == {".pdf", ".docx", ".png", ".txt"}

Files ==
    [ext : Extensions, big : BOOLEAN, corrupt : BOOLEAN, parts : SeqsUpTo(PageTexts, MaxPages)]

\* the Form fields of upload_and_solve, at their defaults
DefaultForm ==
    [subject |-> <<"M", "a", "t", "h", "e", "m", "a", "t", "i", "c", "s">>, class_level |-> 10,
          student_name |-> <<"S", "t", "u", "d", "e", "n", "t">>]

Forms == {DefaultForm}

Returns(text) == [raises |-> FALSE, message |-> <<>>, text |-> text]

Raises(message) == [raises |-> TRUE, message |-> message, text |-> <<>>]

\* "Add.\nThen stop.\nDone": prose with two newlines
ProseLines == <<"A", "d", "d", ".", NL, "T", "h", "e", "n", SP, "s", "t", "o", "p", ".", NL, "D",
      "o", "n", "e">>

\* the language tags a fence may carry: none, json, js
TagJson == <<"j", "s", "o", "n">>

TagJs == <<"j", "s">>

FenceTags == {<<>>, TagJson, TagJs}

\* body in a fence with the tag: ```tag, a newline, body, a newline, ```
Fenced(tag, body) == Fence \o tag \o <<NL>> \o body \o <<NL>> \o Fence

\* What gemini_model.generate_content(prompt) may do: return a JSON object in
\* a fence tagged json, one without steps in a bare fence, one in a fence
\* tagged js, a bare JSON object without steps, a JSON array, prose, an empty
\* text, or raise (that the call may also never return is AwaitForever)
AIOutcomes ==
    {Returns(FenceJson \o <<NL>> \o JsonFull \o <<NL>> \o Fence),
     Returns(Fenced(<<>>, JsonSolutionOnly)),
     Returns(Fenced(TagJs, JsonFull)),
     Returns(JsonSolutionOnly),
     Returns(JsonArray),
     Returns(ProseLines),
     Returns(<<>>),
     Raises(<<"t", "i", "m", "e", "o", "u", "t">>)}

\* The requests the solving and the rendering are looked at with: a PDF of
\* one or two pages that passed the validation, and the form fields
\* "1. Define inertia for 0 marks here": a question that carries 0 marks
PageZeroMarks ==
    <<"1", ".", SP, "D", "e", "f", "i", "n", "e", SP, "i", "n", "e", "r", "t", "i", "a", SP,
      "f", "o", "r", SP, "0", SP, "m", "a", "r", "k", "s", SP, "h", "e", "r", "e">>

\* "1. Is a<b & b>c or not true?": a question with the characters of markup
PageMarkup ==
    <<"1", ".", SP, "I", "s", SP, "a", "<", "b", SP, "&", SP, "b", ">", "c", SP, "o", "r", SP,
      "n", "o", "t", SP, "t", "r", "u", "e", "?">>

SolveParts == {<<PageZeroMarks>>, <<PageMarkup>>, <<PageMarked, PageMcq>>}

SolveFiles ==
    {[ext |-> ".pdf", big |-> FALSE, corrupt |-> FALSE, parts |-> parts] : parts \in SolveParts}

\* subject "R&D" and student_name "A<b>"
MarkupForm ==
    [subject |-> <<"R", "&", "D">>, class_level |-> 10, student_name |-> <<"A", "<", "b", ">">>]

SolveForms == {DefaultForm, MarkupForm}

\* the times datetime.now().timestamp() returns when the artifact is staged
Timestamps == {"t1", "t2"}

-----------------------------------------------------------------------------
(* State                                                                   *)

VARIABLES
    gemini_model,        \* the module variable gemini_model
    pc,                  \* where the request handler upload_and_solve is
    file,                \* the uploaded file
    form,                \* subject, class_level, student_name of the request
    extracted_text,      \* upload_and_solve: extracted_text
    parsed_questions,    \* upload_and_solve: parsed_questions
    questions_to_solve,  \* upload_and_solve: questions_to_solve
    solved_questions,    \* solve_questions_enhanced: solved_questions
    ai_log,              \* the calls of the AI made so far: prompt and outcome
    elements,            \* generate_enhanced_pdf: elements
    blocks,              \* generate_enhanced_pdf: the questions composed so far
    pdf_content,         \* upload_and_solve: pdf_content, once generated
    staged,              \* the files written under /tmp/solutions_*
    response,            \* what the handler returned or raised
    calls,               \* the pipeline stages called so far, in order
    p_stage,             \* parse_questions: where it is
    p_input,             \* parse_questions: the text it was called with
    p_text,              \* parse_questions: text
    p_numbered,          \* parse_questions: numbered_questions
    p_sub,               \* parse_questions: sub_questions
    p_case,              \* parse_questions: case_questions
    p_unique,            \* parse_questions: unique_questions
    p_result,            \* parse_questions: the list returned
    p_questions,         \* parse_questions: questions
    p_returned,          \* the calls of parse_questions that returned: text and result
    peer                 \* the locals of the other request, while this one runs

handler_vars ==
    <<pc, file, form, extracted_text, parsed_questions, questions_to_solve,
      solved_questions, ai_log, elements, blocks, pdf_content, staged, response, calls, peer>>

parser_vars ==
    <<p_stage, p_input, p_text, p_numbered, p_sub, p_case, p_unique, p_result, p_questions,
      p_returned>>

vars == <<gemini_model, handler_vars, parser_vars>>

NoFile == [ext |-> "", big |-> FALSE, corrupt |-> FALSE, parts |-> <<>>]

NoResponse == [kind |-> "none"]

\* no other request is being handled
NoPeer == [pc |-> "none"]

\* raise HTTPException(status_code = status), from the stage named
Error(status, stage) == [kind |-> "error", status |-> status, stage |-> stage]

HandlerInit ==
    /\ pc = "idle"
    /\ peer = NoPeer
    /\ file = NoFile
    /\ form = DefaultForm
    /\ extracted_text = <<>>
    /\ parsed_questions = <<>>
    /\ questions_to_solve = <<>>
    /\ solved_questions = <<>>
    /\ ai_log = <<>>
    /\ elements = <<>>
    /\ blocks = 0
    /\ pdf_content = <<>>
    /\ staged = {}
    /\ response = NoResponse
    /\ calls = <<>>

ParserIdle ==
    /\ p_stage = "idle"
    /\ p_input = <<>>
    /\ p_text = <<>>
    /\ p_numbered = <<>>
    /\ p_sub = <<>>
    /\ p_case = <<>>
    /\ p_unique = <<>>
    /\ p_result = <<>>
    /\ p_questions = <<>>
    /\ p_returned = <<>>

\* The module as loaded: gemini_model = None, no request yet
Init ==
    /\ gemini_model = NoModel
    /\ HandlerInit
    /\ ParserIdle

-----------------------------------------------------------------------------
(* initialize_gemini                                                       *)

\* initialize_gemini: with an API key, a configure() that works and a test
\* call that answers, gemini_model becomes the model; otherwise it stays None
InitializeGemini ==
    /\ pc = "idle"
    /\ \E api_key \in BOOLEAN, test_ok \in BOOLEAN :
          gemini_model' = IF api_key /\ test_ok THEN GeminiPro ELSE gemini_model
    /\ UNCHANGED <<handler_vars, parser_vars>>

-----------------------------------------------------------------------------
(* upload_and_solve                                                        *)

\* raise HTTPException: the handler ends with the error
Reject(status, stage) ==
    /\ response' = Error(status, stage)
    /\ pc' = "done"

\* The request arrives; the extension and the size are validated
Upload ==
    /\ pc = "idle"
    /\ \E f \in Files, fm \in Forms :
          /\ file' = f
          /\ form' = fm
          /\ IF f.ext \notin AllowedExtensions \/ f.big
             THEN Reject(400, "validate")
             ELSE pc' = "extract" /\ UNCHANGED response
    /\ UNCHANGED <<gemini_model, peer, extracted_text, parsed_questions, questions_to_solve,
                   solved_questions, ai_log, elements, blocks, pdf_content, staged, calls,
                   parser_vars>>

\* the adapter upload_and_solve picks for the extension
ExtractByType(f) ==
    IF f.ext \in PdfExts THEN ExtractFromPdf(f)
    ELSE IF f.ext \in DocxExts THEN ExtractFromDocx(f)
    ELSE ExtractFromImage(f)

\* NoTextFound for a handler that lets an empty text through
NoTextNever(text) == FALSE

\* not extracted_text
NoTextFound(text) == text = <<>>

\* The extraction, and the check that it found text
Extract ==
    /\ pc = "extract"
    /\ calls' = Append(calls, "extract")
    /\ LET got == ExtractByType(file)
       IN IF ~got.ok THEN Reject(got.status, "extract") /\ UNCHANGED extracted_text
          ELSE /\ extracted_text' = got.text
               /\ IF NoTextFound(got.text) THEN Reject(400, "extract")
                  ELSE pc' = "parse" /\ UNCHANGED response
    /\ UNCHANGED <<gemini_model, peer, file, form, parsed_questions, questions_to_solve,
                   solved_questions, ai_log, elements, blocks, pdf_content, staged,
                   parser_vars>>

\* NoQuestionsFound for a handler that lets an empty list through
NoQuestionsNever(questions) == FALSE

\* not parsed_questions
NoQuestionsFound(questions) == questions = <<>>

\* parser.parse_questions(extracted_text), statement by statement, and the
\* check that it found questions
Parse ==
    /\ pc = "parse"
    /\ calls' = Append(calls, "parse_questions")
    /\ p_input' = extracted_text
    /\ p_text' = CleanText(p_input')
    /\ p_numbered' = ParseNumberedQuestions(p_text')
    /\ p_sub' = ParseSubQuestions(p_text')
    /\ p_case' = ParseCaseStudyQuestions(p_text')
    /\ p_questions' = NewQuestions(p_questions) \o p_numbered' \o p_sub' \o p_case'
    /\ p_unique' = RemoveDuplicates(p_questions')
    /\ p_result' = Truncated(p_unique')
    /\ p_returned' = Append(p_returned, [text |-> p_input', result |-> p_result'])
    /\ p_stage' = "returned"
    /\ parsed_questions' = p_result'
    /\ IF NoQuestionsFound(parsed_questions') THEN Reject(400, "parse")
       ELSE pc' = "format" /\ UNCHANGED response
    /\ UNCHANGED <<gemini_model, peer, file, form, extracted_text, questions_to_solve,
                   solved_questions, ai_log, elements, blocks, pdf_content, staged>>

\* questions_to_solve = format_parsed_questions(parsed_questions)
Format ==
    /\ pc = "format"
    /\ calls' = Append(calls, "format_parsed_questions")
    /\ questions_to_solve' = FormatParsedQuestions(parsed_questions)
    /\ parsed_questions' = ArgumentAfterFormat(parsed_questions)
    /\ pc' = "solve"
    /\ UNCHANGED <<gemini_model, peer, file, form, extracted_text, solved_questions, ai_log,
                   elements, blocks, pdf_content, staged, response, parser_vars>>

\* solve_questions_enhanced is called: solved_questions = []
SolveBegin ==
    /\ pc = "solve"
    /\ calls' = Append(calls, "solve_questions_enhanced")
    /\ solved_questions' = <<>>
    /\ pc' = "solving"
    /\ UNCHANGED <<gemini_model, peer, file, form, extracted_text, parsed_questions,
                   questions_to_solve, ai_log, elements, blocks, pdf_content, staged, response,
                   parser_vars>>

\* HasNext for a loop that stops one question early
HasNextButLast(questions, done) == done + 1 < Len(questions)

\* Whether the loop of solve_questions_enhanced has a next question, after
\* done of them
HasNext(questions, done) == done < Len(questions)

\* the outcomes the call of the model may have in solve_academic_question:
\* without a model there is no call, and the outcome is not looked at
OutcomesWith(model) == IF model = NoModel THEN {Returns(<<>>)} ELSE AIOutcomes

\* the calls of the AI after one more call of solve_academic_question
Logged(log, model, p, r) ==
    IF model = NoModel THEN log ELSE Append(log, [prompt |-> p, outcome |-> r])

\* One pass of the loop of solve_questions_enhanced: the next question is
\* solved (the model, when there is one, is called once) and its record appended
SolveQuestion ==
    /\ pc = "solving"
    /\ HasNext(questions_to_solve, Len(solved_questions))
    /\ LET i == Len(solved_questions) + 1
           q == questions_to_solve[i]
       IN \E r \in OutcomesWith(gemini_model) :
            /\ solved_questions' = Append(solved_questions, LoopRecord(i, q, gemini_model, r))
            /\ ai_log' = Logged(ai_log, gemini_model,
                                Prompt(q.question, form.subject, form.class_level,
                                       q.original_number, q.type, q.marks), r)
    /\ UNCHANGED <<gemini_model, peer, pc, file, form, extracted_text, parsed_questions,
                   questions_to_solve, elements, blocks, pdf_content, staged, response, calls,
                   parser_vars>>

\* gemini_model.generate_content(prompt) is called for the next question and
\* does not return: the call carries no timeout and is not awaited with one,
\* so upload_and_solve stays in it
AwaitForever ==
    /\ pc = "solving"
    /\ HasNext(questions_to_solve, Len(solved_questions))
    /\ gemini_model # NoModel
    /\ pc' = "calling"
    /\ UNCHANGED <<gemini_model, peer, file, form, extracted_text, parsed_questions,
                   questions_to_solve, solved_questions, ai_log, elements, blocks, pdf_content,
                   staged, response, calls, parser_vars>>

\* solve_questions_enhanced returns solved_questions
SolveReturn ==
    /\ pc = "solving"
    /\ ~HasNext(questions_to_solve, Len(solved_questions))
    /\ pc' = "render"
    /\ UNCHANGED <<gemini_model, peer, file, form, extracted_text, parsed_questions,
                   questions_to_solve, solved_questions, ai_log, elements, blocks, pdf_content,
                   staged, response, calls, parser_vars>>

\* generate_enhanced_pdf is called: the title and the metadata are composed
RenderBegin ==
    /\ pc = "render"
    /\ calls' = Append(calls, "generate_enhanced_pdf")
    /\ elements' = HeaderElements(solved_questions, form.student_name, form.subject,
                                  form.class_level)
    /\ blocks' = 0
    /\ pc' = "rendering"
    /\ UNCHANGED <<gemini_model, peer, file, form, extracted_text, parsed_questions,
                   questions_to_solve, solved_questions, ai_log, pdf_content, staged, response,
                   parser_vars>>

\* One pass of the loop of generate_enhanced_pdf: the next question is composed
RenderQuestion ==
    /\ pc = "rendering"
    /\ blocks < Len(solved_questions)
    /\ elements' = elements \o QuestionElements(solved_questions[blocks + 1])
    /\ blocks' = blocks + 1
    /\ UNCHANGED <<gemini_model, peer, pc, file, form, extracted_text, parsed_questions,
                   questions_to_solve, solved_questions, ai_log, pdf_content, staged, response,
                   calls, parser_vars>>

\* doc.build(elements) and the reading back of the file: the bytes of the
\* document, or the exception of a build that fails, which upload_and_solve
\* turns into HTTPException(500)
DocBuild ==
    /\ pc = "rendering"
    /\ blocks = Len(solved_questions)
    /\ \E built \in BOOLEAN :
          IF built
          THEN pdf_content' = elements /\ pc' = "save" /\ UNCHANGED response
          ELSE Reject(500, "render") /\ UNCHANGED pdf_content
    /\ UNCHANGED <<gemini_model, peer, file, form, extracted_text, parsed_questions,
                   questions_to_solve, solved_questions, ai_log, elements, blocks, staged,
                   calls, parser_vars>>

\* the "parsing_details" of the response
ParsingDetails(questions) ==
    [mcq_count         |-> Len(SelectSeq(questions, LAMBDA q : q.type = "MCQ")),
     descriptive_count |-> Len(SelectSeq(questions, LAMBDA q : q.type = "descriptive")),
     total_marks       |-> TotalMarks(SelectSeq(questions,
                                                LAMBDA q : q.marks # None /\ q.marks[1] # 0))]

\* response_data of upload_and_solve
ResponseData(path) ==
    [kind             |-> "success",
     questions_found  |-> Len(parsed_questions),
     questions_solved |-> Len(solved_questions),
     pdf_path         |-> path,
     solved_questions |-> solved_questions,
     parsing_details  |-> ParsingDetails(parsed_questions)]

\* The document is written to /tmp/solutions_<timestamp>.pdf and the response
\* returned; a failure ends in HTTPException(500): either open() fails and
\* no file is left, or write() fails and the file opened is left without the
\* document
SaveAndRespond ==
    /\ pc = "save"
    /\ \E ts \in Timestamps, opened \in BOOLEAN, written \in BOOLEAN :
          IF opened /\ written
          THEN /\ staged' = {s \in staged : s.path # ts} \cup {[path |-> ts, content |-> pdf_content]}
               /\ response' = ResponseData(ts)
               /\ pc' = "done"
          ELSE /\ Reject(500, "save")
               /\ staged' = IF opened
                             THEN {s \in staged : s.path # ts} \cup {[path |-> ts, content |-> <<>>]}
                             ELSE staged
    /\ UNCHANGED <<gemini_model, peer, file, form, extracted_text, parsed_questions,
                   questions_to_solve, solved_questions, ai_log, elements, blocks, pdf_content,
                   calls, parser_vars>>

Next ==
    \/ InitializeGemini
    \/ Upload
    \/ Extract
    \/ Parse
    \/ Format
    \/ SolveBegin
    \/ SolveQuestion
    \/ AwaitForever
    \/ SolveReturn
    \/ RenderBegin
    \/ RenderQuestion
    \/ DocBuild
    \/ SaveAndRespond

Spec == Init /\ [][Next]_vars

\* The pipeline with the scheduling of the solving: solve_questions_enhanced
\* is one coroutine that the event loop runs on, so a pass of its loop that can
\* be taken is taken, and so is its return
LiveSpec == Spec /\ WF_vars(SolveQuestion) /\ WF_vars(SolveReturn)

-----------------------------------------------------------------------------
(* upload_and_solve from the extraction on                                 *)

\* upload_and_solve has validated one of the files; gemini_model is what
\* initialize_gemini left
SolveInit ==
    /\ gemini_model \in {NoModel, GeminiPro}
    /\ peer = NoPeer
    /\ pc = "extract"
    /\ file \in SolveFiles
    /\ form \in SolveForms
    /\ extracted_text = <<>>
    /\ parsed_questions = <<>>
    /\ questions_to_solve = <<>>
    /\ solved_questions = <<>>
    /\ ai_log = <<>>
    /\ elements = <<>>
    /\ blocks = 0
    /\ pdf_content = <<>>
    /\ staged = {}
    /\ response = NoResponse
    /\ calls = <<>>
    /\ ParserIdle

SolveNext ==
    \/ Extract
    \/ Parse
    \/ Format
    \/ SolveBegin
    \/ SolveQuestion
    \/ AwaitForever
    \/ SolveReturn
    \/ RenderBegin
    \/ RenderQuestion
    \/ DocBuild
    \/ SaveAndRespond

SolveSpec == SolveInit /\ [][SolveNext]_vars

-----------------------------------------------------------------------------
(* Two requests handled at the same time (PairSpec)                        *)

\* the locals of the request that runs
Locals ==
    [pc |-> pc, file |-> file, form |-> form, extracted_text |-> extracted_text,
     parsed_questions |-> parsed_questions, questions_to_solve |-> questions_to_solve,
     solved_questions |-> solved_questions, ai_log |-> ai_log, elements |-> elements,
     blocks |-> blocks, pdf_content |-> pdf_content, response |-> response, calls |-> calls]

\* the locals of a request that passed the validation with file f
FreshRequest(f, fm) ==
    [pc |-> "extract", file |-> f, form |-> fm, extracted_text |-> <<>>,
     parsed_questions |-> <<>>, questions_to_solve |-> <<>>, solved_questions |-> <<>>,
     ai_log |-> <<>>, elements |-> <<>>, blocks |-> 0, pdf_content |-> <<>>,
     response |-> NoResponse, calls |-> <<>>]

\* the uploads of the two requests: "1. Define inertia for 0 marks here" and
\* "1. Is a<b & b>c or not true?"
FirstUpload == [ext |-> ".pdf", big |-> FALSE, corrupt |-> FALSE, parts |-> <<PageZeroMarks>>]

SecondUpload == [ext |-> ".pdf", big |-> FALSE, corrupt |-> FALSE, parts |-> <<PageMarkup>>]

\* Two requests have passed the validation in workers that were loaded without
\* a model; the module variable and the directory /tmp are what they share
PairInit ==
    /\ gemini_model = NoModel
    /\ pc = "extract"
    /\ file = FirstUpload
    /\ form = DefaultForm
    /\ extracted_text = <<>>
    /\ parsed_questions = <<>>
    /\ questions_to_solve = <<>>
    /\ solved_questions = <<>>
    /\ ai_log = <<>>
    /\ elements = <<>>
    /\ blocks = 0
    /\ pdf_content = <<>>
    /\ staged = {}
    /\ response = NoResponse
    /\ calls = <<>>
    /\ peer = FreshRequest(SecondUpload, DefaultForm)
    /\ ParserIdle

\* The other request runs on: the handler that ran is suspended with its
\* locals, and the one that waited continues where it was
Switch ==
    /\ peer # NoPeer
    /\ peer.pc # "done"
    /\ peer' = Locals
    /\ pc' = peer.pc
    /\ file' = peer.file
    /\ form' = peer.form
    /\ extracted_text' = peer.extracted_text
    /\ parsed_questions' = peer.parsed_questions
    /\ questions_to_solve' = peer.questions_to_solve
    /\ solved_questions' = peer.solved_questions
    /\ ai_log' = peer.ai_log
    /\ elements' = peer.elements
    /\ blocks' = peer.blocks
    /\ pdf_content' = peer.pdf_content
    /\ response' = peer.response
    /\ calls' = peer.calls
    /\ UNCHANGED <<gemini_model, staged, parser_vars>>

PairNext ==
    \/ Extract
    \/ Parse
    \/ Format
    \/ SolveBegin
    \/ SolveQuestion
    \/ SolveReturn
    \/ RenderBegin
    \/ RenderQuestion
    \/ DocBuild
    \/ SaveAndRespond
    \/ Switch

PairSpec == PairInit /\ [][PairNext]_vars

-----------------------------------------------------------------------------
(* parse_questions, statement by statement                                 *)

\* parse_questions is called with one of the texts
ParseInit ==
    /\ gemini_model = NoModel
    /\ HandlerInit
    /\ p_stage = "called"
    /\ p_input \in ParseTexts
    /\ p_text = p_input
    /\ p_numbered = <<>>
    /\ p_sub = <<>>
    /\ p_case = <<>>
    /\ p_unique = <<>>
    /\ p_result = <<>>
    /\ p_questions = <<>>
    /\ p_returned = <<>>

\* questions = [] and text = QuestionParser._clean_text(text)
CleanStep ==
    /\ p_stage = "called"
    /\ p_questions' = NewQuestions(p_questions)
    /\ p_text' = CleanText(p_text)
    /\ p_stage' = "cleaned"
    /\ UNCHANGED <<gemini_model, handler_vars, p_input, p_numbered, p_sub, p_case, p_unique,
                   p_result, p_returned>>

\* numbered_questions = QuestionParser._parse_numbered_questions(text), and
\* questions.extend(numbered_questions)
NumberedStep ==
    /\ p_stage = "cleaned"
    /\ p_numbered' = ParseNumberedQuestions(p_text)
    /\ p_questions' = p_questions \o p_numbered'
    /\ p_stage' = "numbered"
    /\ UNCHANGED <<gemini_model, handler_vars, p_input, p_text, p_sub, p_case, p_unique,
                   p_result, p_returned>>

\* sub_questions = QuestionParser._parse_sub_questions(text), and
\* questions.extend(sub_questions)
SubStep ==
    /\ p_stage = "numbered"
    /\ p_sub' = ParseSubQuestions(p_text)
    /\ p_questions' = p_questions \o p_sub'
    /\ p_stage' = "sub"
    /\ UNCHANGED <<gemini_model, handler_vars, p_input, p_text, p_numbered, p_case, p_unique,
                   p_result, p_returned>>

\* case_questions = QuestionParser._parse_case_study_questions(text), and
\* questions.extend(case_questions)
CaseStep ==
    /\ p_stage = "sub"
    /\ p_case' = ParseCaseStudyQuestions(p_text)
    /\ p_questions' = p_questions \o p_case'
    /\ p_stage' = "case"
    /\ UNCHANGED <<gemini_model, handler_vars, p_input, p_text, p_numbered, p_sub, p_unique,
                   p_result, p_returned>>

\* unique_questions = QuestionParser._remove_duplicates(questions)
DedupStep ==
    /\ p_stage = "case"
    /\ p_unique' = RemoveDuplicates(p_questions)
    /\ p_stage' = "unique"
    /\ UNCHANGED <<gemini_model, handler_vars, p_input, p_text, p_numbered, p_sub, p_case,
                   p_result, p_questions, p_returned>>

\* return unique_questions[:50]
ReturnStep ==
    /\ p_stage = "unique"
    /\ p_result' = Truncated(p_unique)
    /\ p_returned' = Append(p_returned, [text |-> p_input, result |-> p_result'])
    /\ p_stage' = "returned"
    /\ UNCHANGED <<gemini_model, handler_vars, p_input, p_text, p_numbered, p_sub, p_case,
                   p_unique, p_questions>>

ParseNext ==
    \/ CleanStep
    \/ NumberedStep
    \/ SubStep
    \/ CaseStep
    \/ DedupStep
    \/ ReturnStep

ParseSpec == ParseInit /\ [][ParseNext]_vars

-----------------------------------------------------------------------------
(* parse_questions called again and again by one process (TwiceSpec)       *)

\* the most calls of parse_questions one behaviour makes
MaxCalls == 3

\* the texts of the repeated calls: Scenario A, the case study, the paper of
\* one kept question, and a text without a question
AgainTexts == {ScenarioA, CaseStudyText, KeyElevenText, PageNoQuestion}

\* the first request of the process reaches parse_questions
TwiceInit ==
    /\ gemini_model = NoModel
    /\ HandlerInit
    /\ p_stage = "called"
    /\ p_input \in AgainTexts
    /\ p_text = p_input
    /\ p_numbered = <<>>
    /\ p_sub = <<>>
    /\ p_case = <<>>
    /\ p_unique = <<>>
    /\ p_result = <<>>
    /\ p_questions = <<>>
    /\ p_returned = <<>>

\* A later request of the same process reaches
\* QuestionParser.parse_questions(extracted_text): the static method is called
\* again in the same interpreter, with whatever the earlier calls left behind
CallAgain ==
    /\ p_stage = "returned"
    /\ Len(p_returned) < MaxCalls
    /\ \E text \in AgainTexts :
          /\ p_input' = text
          /\ p_text' = text
    /\ p_stage' = "called"
    /\ UNCHANGED <<gemini_model, handler_vars, p_numbered, p_sub, p_case, p_unique, p_result,
                   p_questions, p_returned>>

TwiceNext ==
    \/ ParseNext
    \/ CallAgain

TwiceSpec == TwiceInit /\ [][TwiceNext]_vars

-----------------------------------------------------------------------------
(* Properties of the pipeline (Spec)                                       *)

\* Whether the stage named has been called in this run
Called(stage) == \E i \in DOMAIN calls : calls[i] = stage

\* solve_questions_enhanced has returned
SolveReturned == Called("solve_questions_enhanced") /\ pc \notin {"solving", "calling"}

\* C1: solve_questions_enhanced returns one record for every formatted
\* question, in the order of the questions, record i carrying the label and the
\* text of question i, whatever the model did for each question (answered,
\* answered nothing, answered something that is no JSON, raised); while the
\* questions are solved no error reply is made, and no error reply ever comes
\* from the solving.
C1_OneRecordPerQuestion ==
    /\ Len(solved_questions) <= Len(questions_to_solve)
    /\ \A i \in DOMAIN solved_questions :
          /\ solved_questions[i].number = questions_to_solve[i].original_number
          /\ solved_questions[i].question = questions_to_solve[i].question
    /\ SolveReturned => Len(solved_questions) = Len(questions_to_solve)
    /\ pc = "solving" => response = NoResponse
    /\ (SolveReturned /\ pc = "render") => response = NoResponse
    /\ response.kind = "error" =>
          response.stage \in {"validate", "extract", "parse", "render", "save"}

\* Two questions have been solved, the model raising for one and answering
\* nothing for another
C1_SolvedDespiteFailures ==
    /\ SolveReturned
    /\ Len(solved_questions) = 2
    /\ \E i, j \in DOMAIN ai_log :
          /\ ai_log[i].outcome.raises
          /\ ~ai_log[j].outcome.raises /\ ai_log[j].outcome.text = <<>>

\* C2, as stated: when the call of the model raises for a question, the record
\* of that question has the solution "Unable to generate solution for this
\* question." and empty steps, final_answer and explanation.
C2_RaisedGivesUnableText ==
    \A i \in DOMAIN ai_log :
       ai_log[i].outcome.raises =>
          /\ solved_questions[i].solution = UnableText
          /\ solved_questions[i].steps = <<>>
          /\ solved_questions[i].final_answer = <<>>
          /\ solved_questions[i].explanation = <<>>

\* C2, amended: when the call of the model raises for a question,
\* solve_academic_question catches the exception and the record of that
\* question has the solution "Error generating solution: " followed by the
\* text of the exception, and empty steps, final_answer and explanation; every
\* record is the one its own question and its own outcome give, whatever
\* happened for the other questions.
C2_RaisedGivesErrorText ==
    \A i \in DOMAIN ai_log :
       /\ ai_log[i].outcome.raises =>
             /\ solved_questions[i].solution = ErrorPrefix \o ai_log[i].outcome.message
             /\ solved_questions[i].steps = <<>>
             /\ solved_questions[i].final_answer = <<>>
             /\ solved_questions[i].explanation = <<>>
       /\ solved_questions[i]
            = LoopRecord(i, questions_to_solve[i], gemini_model, ai_log[i].outcome)

\* The model raised for one question and returned a text for another
C2_OneRaisedOneAnswered ==
    \E i, j \in DOMAIN ai_log :
       /\ ai_log[i].outcome.raises
       /\ ~ai_log[j].outcome.raises /\ ai_log[j].outcome.text # <<>>

\* the extraction of the uploaded file fails or finds an empty text
ExtractionFailed ==
    LET got == ExtractByType(file) IN ~got.ok \/ got.text = <<>>

\* C3: a run whose extraction fails or finds an empty text is rejected with
\* only the extraction called (parse_questions is never called), a run whose
\* parse_questions finds no question is rejected with only the extraction and
\* parse_questions called (nothing is solved or rendered), and a run rejected
\* at the validation has called no stage; a rejected run is over.
C3_RejectedRunStops ==
    /\ (Called("extract") /\ ExtractionFailed) =>
          response = Error(400, "extract") /\ calls = <<"extract">>
    /\ (Called("parse_questions") /\ parsed_questions = <<>>) =>
          response = Error(400, "parse") /\ calls = <<"extract", "parse_questions">>
    /\ response = Error(400, "validate") => calls = <<>>
    /\ response.kind = "error" => pc = "done"
    /\ (response.kind = "error" /\ response.status = 400) =>
          /\ ~Called("solve_questions_enhanced") /\ ~Called("generate_enhanced_pdf")
          /\ ai_log = <<>> /\ solved_questions = <<>> /\ elements = <<>>

\* A run whose text holds no question has been rejected
C3_NoQuestionsRejected ==
    /\ response = Error(400, "parse")
    /\ extracted_text # <<>>

\* the elements generate_enhanced_pdf composes for all of solved
RECURSIVE AllQuestionElements(_)
AllQuestionElements(solved) ==
    IF solved = <<>> THEN <<>>
    ELSE QuestionElements(Head(solved)) \o AllQuestionElements(Tail(solved))

\* C4: a run that is over has replied with a success or with an error; a
\* success reply has at least one solved question and names a staged file that
\* holds the whole document (the header and the elements of every solved
\* question); an error reply names no file, and a build that fails leaves no
\* document and no staged file.
C4_CompleteArtifactOrError ==
    /\ pc = "done" <=> response.kind \in {"success", "error"}
    /\ response.kind = "success" =>
          /\ response.questions_solved >= 1
          /\ response.questions_solved = Len(solved_questions)
          /\ response.questions_found = response.questions_solved
          /\ \E s \in staged :
                /\ s.path = response.pdf_path
                /\ s.content = HeaderElements(solved_questions, form.student_name,
                                              form.subject, form.class_level)
                                 \o AllQuestionElements(solved_questions)
    /\ response.kind = "error" => "pdf_path" \notin DOMAIN response
    /\ response = Error(500, "render") => pdf_content = <<>> /\ staged = {}

\* A run has replied with a success for two questions, one answered and one
\* not
C4_SuccessWithFallback ==
    /\ response.kind = "success"
    /\ \E i, j \in DOMAIN solved_questions :
          /\ solved_questions[i].solution = FailedText
          /\ solved_questions[j].solution = <<"x">>

\* C5, as stated: the Total Marks of the document is the sum of the marks of
\* the candidates that had marks when they were parsed, a candidate without
\* marks counting 0.
C5_TotalMarksOfPresentMarks ==
    Called("generate_enhanced_pdf") =>
       elements[2].text = Metadata(form.student_name, Len(solved_questions),
                                   TotalMarks(parsed_questions))

\* C6: generate_enhanced_pdf is called only when solve_questions_enhanced has
\* a record for every parsed candidate: from the call on, the solved list is as
\* long as the parsed list and its i-th record is that of the i-th candidate.
C6_RenderAfterAllSolved ==
    (Called("generate_enhanced_pdf") \/ pc \in {"render", "rendering", "save"}) =>
       /\ Len(solved_questions) = Len(parsed_questions)
       /\ \A i \in DOMAIN parsed_questions :
             solved_questions[i].number = parsed_questions[i].number

\* The rendering of two solved questions is under way
C6_RenderingTwoSolved ==
    /\ pc = "rendering"
    /\ blocks = 1
    /\ Len(parsed_questions) = 2

-----------------------------------------------------------------------------
(* Properties of parse_questions (ParseSpec)                               *)

\* the texts that hold a body once under the numbered marker and once under
\* the sub-question marker, in either order
SameTextTwice ==
    {JoinLines(<<NumberedMarker \o b, SubMarker \o b>>) : b \in Bodies}
      \cup {JoinLines(<<SubMarker \o b, NumberedMarker \o b>>) : b \in Bodies}

WithKey(questions, key) == {k \in DOMAIN questions : QuestionKey(questions[k]) = key}

C8_BodyAtLeastTen ==
    p_stage = "returned" =>
       \A k \in DOMAIN p_result : Len(p_result[k].question) >= MinQuestionLen

\* Candidates are returned, and the numbered pass had found a multiple-choice
\* question whose stem is shorter than 10 characters
C8_ShortStemFound ==
    /\ p_stage = "returned"
    /\ p_result # <<>>
    /\ \E i \in DOMAIN p_numbered :
          p_numbered[i].type = "MCQ" /\ Len(p_numbered[i].question) < MinQuestionLen

\* how many option markers (A) .. D) or A. .. D.) occur in text
MarkerCount(text) == Len(Matches(RxOptionMarker, 0, text, NoFlags))

\* C9: no candidate parse_questions returns has exactly one option, and a
\* multiple-choice candidate has at least two; a body of the numbered pass that
\* is a valid question and holds exactly one option marker gives a descriptive
\* candidate without options whose body is the whole text, and no returned
\* candidate with that body has options.
C9_NeverOneOption ==
    p_stage = "returned" =>
       /\ \A k \in DOMAIN p_result :
             /\ Len(p_result[k].options) # 1
             /\ p_result[k].type = "MCQ" => Len(p_result[k].options) >= MinOptions
       /\ \A m \in Range(AllMatches(NumberedPatterns, 2, p_text, MLDotAll)) :
             LET q_text == CleanQuestionText(Strip(GroupText(p_text, m.caps[2])))
             IN (IsValidQuestion(q_text) /\ MarkerCount(q_text) = 1) =>
                   /\ \E n \in DOMAIN p_numbered :
                         /\ p_numbered[n].number = GroupText(p_text, m.caps[1])
                         /\ p_numbered[n].question = q_text
                         /\ p_numbered[n].type = "descriptive"
                         /\ p_numbered[n].options = <<>>
                   /\ \A k \in DOMAIN p_result :
                         p_result[k].question = q_text => p_result[k].options = <<>>

\* A descriptive candidate whose body holds exactly one option marker has been
\* returned
C9_OneMarkerDescriptive ==
    /\ p_stage = "returned"
    /\ \E k \in DOMAIN p_result :
          /\ p_result[k].type = "descriptive"
          /\ MarkerCount(p_result[k].question) = 1

\* the pass a candidate comes from: 1 numbered, 2 sub-question, 3 case study
PassOf(q) ==
    CASE q.type \in {"MCQ", "descriptive"} -> 1
      [] q.type = "sub-question" -> 2
      [] q.type = "case-study" -> 3

\* C10: parse_questions returns at most 50 candidates: the first min(50, n)
\* of the n candidates left when the duplicates are removed from the merged
\* list, where the candidates of the numbered pass come before those of the
\* sub-question pass, and these before those of the case-study pass.
C10_FirstFiftyInPassOrder ==
    p_stage = "returned" =>
       /\ Len(p_result) <= MaxQuestions
       /\ Len(p_result) = IF Len(p_unique) < MaxQuestions THEN Len(p_unique) ELSE MaxQuestions
       /\ \A k \in DOMAIN p_result : p_result[k] = p_unique[k]
       /\ \A i, j \in DOMAIN p_unique : i < j => PassOf(p_unique[i]) <= PassOf(p_unique[j])
       /\ p_unique = RemoveDuplicates(p_numbered \o p_sub \o p_case)

\* More than 50 candidates were left after the duplicates were removed, of the
\* numbered and of the sub-question pass, and 50 are returned
C10_LongPaperCut ==
    /\ p_stage = "returned"
    /\ Len(p_unique) > MaxQuestions
    /\ \E i \in DOMAIN p_unique : PassOf(p_unique[i]) = 2
    /\ Len(p_result) = MaxQuestions

-----------------------------------------------------------------------------
(* Properties of parse_questions on papers of known shape (ParseSpec)      *)

\* the candidate the numbered pass makes of line i of a plain paper
PlainCandidate(i, body) ==
    [number |-> ToStr(i), question |-> body, type |-> "descriptive", options |-> <<>>,
     marks |-> None]

PairwiseDifferent(bodies) == \A i, j \in DOMAIN bodies : i # j => bodies[i] # bodies[j]

\* the key deduplication makes of a body
KeyOf(body) == QuestionKey([question |-> body])

\* the lines of a plain paper whose key is longer than 10 characters and is
\* not the key of an earlier line
KeptLines(bodies) ==
    SelectSeq([i \in DOMAIN bodies |-> i],
              LAMBDA i : /\ Len(KeyOf(bodies[i])) > 10
                         /\ \A j \in 1 .. i - 1 : KeyOf(bodies[j]) # KeyOf(bodies[i]))

\* the plain paper parse_questions was called with
PaperOf(text) == CHOOSE bodies \in PlainPapers : PlainText(bodies) = text

McqCandidate(paper) ==
    [number |-> <<"3">>, question |-> paper.stem, type |-> "MCQ", options |-> ColourOptions,
     marks |-> None]

\* the multiple-choice paper parse_questions was called with
McqPaperOf(text) == CHOOSE paper \in McqPapers : McqText(paper) = text

\* C12 as stated: for a numbered question whose validated body is a stem
\* followed by the options A) B) C) D), parse_questions returns one MCQ
\* candidate whose body is the stem and whose options are the four option
\* texts in order
C12_OneMcqCandidate ==
    p_stage = "returned" /\ p_input \in McqTexts
    => p_result = <<McqCandidate(McqPaperOf(p_input))>>

\* C12, amended: for such a question the numbered pass makes one MCQ candidate
\* whose body is the stem and whose options are the four option texts in order,
\* markers and surrounding whitespace removed; parse_questions returns it when
\* the key of the stem is longer than 10 characters, and nothing otherwise
C12_OneMcqCandidateOfLongStem ==
    p_stage = "returned" /\ p_input \in McqTexts
    => /\ p_numbered = <<McqCandidate(McqPaperOf(p_input))>>
       /\ p_result = IF Len(KeyOf(McqPaperOf(p_input).stem)) > 10
                     THEN <<McqCandidate(McqPaperOf(p_input))>>
                     ELSE <<>>

\* "3. Which colour is it? A) Red B) Blue C) Green D) Yellow" has been parsed
\* into one MCQ candidate with the four options
C12_FourOptionsReturned ==
    /\ p_stage = "returned"
    /\ p_input = McqText([stem |-> StemLong, sep |-> <<SP>>])
    /\ Len(p_result) = 1
    /\ p_result[1].type = "MCQ"
    /\ p_result[1].question = StemLong
    /\ p_result[1].options = ColourOptions

-----------------------------------------------------------------------------
(* Properties of the solving (Spec)                                        *)

\* the JSON objects among the sample documents
JsonObjects == {d \in JsonDocuments : d.kind = "object"}

\* the field of a decoded object, or the default when the object omits it
FieldOr(d, key, default) == IF key \in DOMAIN d.value THEN d.value[key] ELSE default

\* the record carries the four fields of the object d, steps defaulting to []
\* and final_answer and explanation to ""
CopiedFrom(record, d) ==
    /\ record.solution = d.value.solution
    /\ record.steps = FieldOr(d, "steps", <<>>)
    /\ record.final_answer = FieldOr(d, "final_answer", <<>>)
    /\ record.explanation = FieldOr(d, "explanation", <<>>)

\* C13 as stated: when the model returns a JSON object in a triple-backtick
\* fence, with or without a language tag, the solved record carries the four
\* fields of the object, steps defaulting to [] and final_answer and
\* explanation to ""
C13_FencedObjectCopied ==
    \A i \in DOMAIN ai_log : \A tag \in FenceTags, d \in JsonObjects :
       ai_log[i].outcome = Returns(Fenced(tag, d.text)) => CopiedFrom(solved_questions[i], d)

\* C13, amended: when the model returns a JSON object in a fence that is bare
\* or tagged json, the solved record carries the four fields of the object with
\* those defaults; in a fence with another tag the tag stays in the text, the
\* decoding fails, and the record has the tag, the object and the newlines as
\* its solution and their lines as its steps
C13_BareOrJsonFenceCopied ==
    \A i \in DOMAIN ai_log : \A tag \in FenceTags, d \in JsonObjects :
       ai_log[i].outcome = Returns(Fenced(tag, d.text)) =>
          IF tag \in {<<>>, TagJson}
          THEN CopiedFrom(solved_questions[i], d)
          ELSE /\ solved_questions[i].solution = tag \o <<NL>> \o d.text \o <<NL>>
               /\ solved_questions[i].steps = <<tag, d.text, <<>>>>
               /\ solved_questions[i].final_answer = <<>>
               /\ solved_questions[i].explanation = <<>>

\* One question was answered with the full object in a fence tagged json and
\* another with an object without steps in a bare fence
C13_BothFencesAnswered ==
    \E i, j \in DOMAIN ai_log :
       /\ ai_log[i].outcome = Returns(Fenced(TagJson, JsonFull))
       /\ solved_questions[i].steps = <<<<"s", "1">>>>
       /\ solved_questions[i].final_answer = <<"4">>
       /\ ai_log[j].outcome = Returns(Fenced(<<>>, JsonSolutionOnly))
       /\ solved_questions[j].solution = <<"a", "<", "b">>
       /\ solved_questions[j].steps = <<>>

\* the number of newlines of a text
Newlines(text) == Cardinality({k \in DOMAIN text : text[k] = NL})

\* the texts among the outcomes that are prose: no fence, and json.loads
\* does not decode them
IsProse(text) ==
    /\ text # <<>>
    /\ FindLit(Fence, text) = 0
    /\ \A d \in JsonDocuments : d.text # Strip(text)

\* C14 as stated: when the model returns prose that is no JSON and holds two
\* newlines, the steps of the solved record have exactly 2 entries
C14_TwoNewlinesTwoSteps ==
    \A i \in DOMAIN ai_log :
       (~ai_log[i].outcome.raises /\ IsProse(ai_log[i].outcome.text)
          /\ Newlines(ai_log[i].outcome.text) = 2)
       => Len(solved_questions[i].steps) = 2

\* C14, amended: when the model returns prose that is no JSON, the steps of
\* the solved record are the lines of the text, one more than it has newlines,
\* so exactly 3 entries for two newlines, and the solution is the text itself
C14_TwoNewlinesThreeSteps ==
    \A i \in DOMAIN ai_log :
       (~ai_log[i].outcome.raises /\ IsProse(ai_log[i].outcome.text))
       => /\ Len(solved_questions[i].steps) = Newlines(ai_log[i].outcome.text) + 1
          /\ Newlines(ai_log[i].outcome.text) = 2 => Len(solved_questions[i].steps) = 3
          /\ solved_questions[i].solution = ai_log[i].outcome.text
          /\ \A k \in DOMAIN solved_questions[i].steps :
                Newlines(solved_questions[i].steps[k]) = 0

\* A question was answered with the prose "Add.\nThen stop.\nDone" and its
\* record has the three lines as steps
C14_ProseAnswered ==
    \E i \in DOMAIN ai_log :
       /\ ai_log[i].outcome = Returns(ProseLines)
       /\ solved_questions[i].steps
            = <<<<"A", "d", "d", ".">>, <<"T", "h", "e", "n", SP, "s", "t", "o", "p", ".">>,
                <<"D", "o", "n", "e">>>>

-----------------------------------------------------------------------------
(* Properties of the solve requests and of the document (SolveSpec)        *)

\* the marks a request is built with are the marks of the question, or 1 for
\* a question without marks, and the request asks for a detailed solution
\* exactly from 3 marks on
RequestFollowsMarks(q, prompt) ==
    /\ prompt.marks = IF q.marks = None THEN 1 ELSE q.marks[1]
    /\ prompt.detail_level = IF prompt.marks >= 3 THEN "detailed" ELSE "concise"
    /\ q.marks = None => prompt.detail_level = "concise"

-----------------------------------------------------------------------------
(* Termination of the solving (LiveSpec)                                   *)

\* C16: when a call of the model does not return, its candidate is resolved
\* all the same, and the request goes on to solve the remaining candidates and
\* reaches the rendering with one record for every question
C16_HungCallStillRenders ==
    (pc = "calling") ~> (pc = "render" /\ Len(solved_questions) = Len(questions_to_solve))

-----------------------------------------------------------------------------
(* Properties of the markup of the document (SolveSpec)                    *)

\* The elements of the first n solved questions, in order
RECURSIVE QuestionBlocks(_, _)
QuestionBlocks(solved, n) ==
    IF n = 0 THEN <<>>
    ELSE QuestionBlocks(solved, n - 1) \o QuestionElements(solved[n])

\* A text in which no markup-reserved character is left: no "<", no ">", and
\* every "&" starts one of the three entities
NoRawMarkup(text) ==
    \A i \in DOMAIN text :
        /\ text[i] \notin {"<", ">"}
        /\ text[i] = "&" =>
              \E entity \in {<<"&", "a", "m", "p", ";">>, <<"&", "l", "t", ";">>,
                             <<"&", "g", "t", ";">>} :
                  /\ i + Len(entity) - 1 <= Len(text)
                  /\ SubSeq(text, i, i + Len(entity) - 1) = entity

\* C17: every free text the renderer places in the document is escaped: the
\* paragraphs of the question, of the steps or the solution, of the final
\* answer and of the explanation carry no raw "&", "<" or ">", and the title
\* and the metadata carry the subject and the student name with each of these
\* characters replaced by its entity.
C17_AllFreeTextEscaped ==
    elements # <<>> =>
        /\ elements = HeaderElements(solved_questions, Escape(form.student_name),
                                     Escape(form.subject), form.class_level)
                        \o QuestionBlocks(solved_questions, blocks)
        /\ \A i \in DOMAIN elements :
              (elements[i].kind = "Paragraph"
                 /\ elements[i].style \in {"Question", "Solution", "Answer"})
                 => NoRawMarkup(elements[i].text)

-----------------------------------------------------------------------------
(* Properties of the extraction (Spec)                                     *)

\* C18 as stated: every adapter returns a text that is not empty, or fails
\* with an extraction error; none returns the empty string.
C18_AdapterNeverEmpty ==
    Called("extract") =>
        LET got == ExtractByType(file)
        IN got.ok => got.text # <<>>

\* C18: only extract_from_image refuses an empty text itself. extract_from_pdf
\* and extract_from_docx return the empty string for a file in which no text
\* is found; upload_and_solve then rejects the request with status 400 before
\* parse_questions is called.
C18_EmptyTextOnlyFromPdfOrDocx ==
    Called("extract") =>
        LET got == ExtractByType(file)
        IN /\ (file.ext \in ImageExts /\ got.ok) => got.text # <<>>
           /\ (got.ok /\ got.text = <<>>) =>
                 /\ file.ext \in PdfExts \cup DocxExts
                 /\ extracted_text = <<>>
                 /\ response = Error(400, "extract")
                 /\ calls = <<"extract">>
           /\ ~got.ok => response = Error(400, "extract") /\ calls = <<"extract">>

\* a pdf that is read without error and has no text: the adapter returned the
\* empty string and the handler rejected the request; and an image without
\* text is refused by the adapter
C18_EmptyPdfReturned ==
    /\ Called("extract")
    /\ file.ext \in PdfExts
    /\ ~file.corrupt
    /\ ExtractFromPdf(file) = Extracted(<<>>)
    /\ response = Error(400, "extract")
    /\ ExtractFromImage([file EXCEPT !.ext = ".png"]) = ExtractionError

-----------------------------------------------------------------------------
(* Properties of repeated calls of parse_questions (TwiceSpec)             *)

\* C19: parse_questions is deterministic: any two calls on the same text
\* returned the same list of candidates (same labels, bodies, kinds, options
\* and marks, in the same order), whatever was parsed before each of them.
C19_SameTextSameResult ==
    \A i, j \in DOMAIN p_returned :
        p_returned[i].text = p_returned[j].text =>
            p_returned[i].result = p_returned[j].result

\* three calls returned: the first and the third on the same text that has a
\* candidate, the second on another text that has a candidate of its own
C19_SameTextAroundAnother ==
    /\ Len(p_returned) = 3
    /\ p_returned[1].text = p_returned[3].text
    /\ p_returned[2].text # p_returned[1].text
    /\ p_returned[1].result # <<>>
    /\ p_returned[2].result # <<>>
    /\ p_returned[2].result # p_returned[1].result

-----------------------------------------------------------------------------
(* Properties of the deduplication (ParseSpec)                             *)

\* The candidates of a list that are not dropped when a candidate is dropped
\* exactly if its key satisfies Short or an earlier candidate of the list has
\* the same key; in the order of the list
KeptWhen(questions, Short(_)) ==
    LET key == [i \in DOMAIN questions |-> QuestionKey(questions[i])]
        indices == [i \in DOMAIN questions |-> i]
        kept == SelectSeq(indices,
                          LAMBDA i : /\ ~Short(key[i])
                                     /\ \A j \in 1 .. (i - 1) : key[j] # key[i])
    IN [k \in DOMAIN kept |-> questions[kept[k]]]

\* _remove_duplicates has returned
Deduplicated == p_stage \in {"unique", "returned"}

\* C20 as stated: a candidate is dropped exactly when its key was already seen
\* or is shorter than 10 characters, so a new key of exactly 10 is kept.
C20_DroppedBelowTen ==
    Deduplicated =>
        p_unique = KeptWhen(p_questions, LAMBDA key : Len(key) < MinKeyLen)

\* C20: a candidate is dropped exactly when its key was already seen or has at
\* most 10 characters: a new key of exactly 10 characters is dropped, one of 11
\* is kept.
C20_DroppedUpToTen ==
    Deduplicated =>
        p_unique = KeptWhen(p_questions, LAMBDA key : Len(key) <= MinKeyLen)

\* a paper whose passes found a candidate with a key of exactly 10 characters,
\* which was dropped, and a candidate that was kept
C20_KeyOfTenDropped ==
    /\ p_stage = "returned"
    /\ p_unique # <<>>
    /\ \E i \in DOMAIN p_questions :
          /\ Len(QuestionKey(p_questions[i])) = MinKeyLen
          /\ \A k \in DOMAIN p_unique : QuestionKey(p_unique[k]) # QuestionKey(p_questions[i])

-----------------------------------------------------------------------------
(* Properties of the validity filter (ParseSpec)                           *)

\* the question verbs and interrogatives the specification lists: find,
\* calculate, prove, solve, explain, define, derive, show that, evaluate,
\* determine, state, write, what, which, how, why, when
ListedTokens ==
    {<<"f", "i", "n", "d">>, <<"c", "a", "l", "c", "u", "l", "a", "t", "e">>, <<"p", "r",
     "o", "v", "e">>, <<"s", "o", "l", "v", "e">>, <<"e", "x", "p", "l", "a", "i", "n">>,
     <<"d", "e", "f", "i", "n", "e">>, <<"d", "e", "r", "i", "v", "e">>, <<"s", "h", "o",
     "w", SP, "t", "h", "a", "t">>, <<"e", "v", "a", "l", "u", "a", "t", "e">>, <<"d", "e",
     "t", "e", "r", "m", "i", "n", "e">>, <<"s", "t", "a", "t", "e">>, <<"w", "r", "i", "t",
     "e">>, <<"w", "h", "a", "t">>, <<"w", "h", "i", "c", "h">>, <<"h", "o", "w">>, <<"w",
     "h", "y">>, <<"w", "h", "e", "n">>}

\* word w stands in text at position i, between word boundaries
WordAt(text, w, i) ==
    /\ i >= 1
    /\ i + Len(w) - 1 <= Len(text)
    /\ SubSeq(text, i, i + Len(w) - 1) = w
    /\ i = 1 \/ text[i - 1] \notin WordChars
    /\ i + Len(w) > Len(text) \/ text[i + Len(w)] \notin WordChars

HasWord(text, w) == \E i \in DOMAIN text : WordAt(text, w, i)

HasQuestionMark(text) == \E i \in DOMAIN text : text[i] = "?"

HasListedToken(text) == \E w \in ListedTokens : HasWord(LowerText(text), w)

HasSymbol(text) == \E i \in DOMAIN text : text[i] \in {"+", "-", "*", "/", "=", "^"}

HasDigit(text) == \E i \in DOMAIN text : text[i] \in Digits

\* the word first, and later in the text the word second
HasWordThenWord(text, first, second) ==
    \E i, j \in DOMAIN text :
        /\ WordAt(LowerText(text), first, i)
        /\ WordAt(LowerText(text), second, j)
        /\ j >= i + Len(first)

\* the text starts with one of the headers _is_valid_question skips
IsHeader(text) == \E rx \in Range(SkipPatterns) : MatchAt(rx, 0, text, 1, IgnoreCase).ok

\* the body of the one-line paper parse_questions was called with
SignalBodyOf(text) == CHOOSE body \in SignalBodies : NumberedLine(1, body) = text

\* the numbered pass has run on a one-line paper
SignalPaperParsed == p_stage \notin {"idle", "called", "cleaned"} /\ p_input \in SignalTexts

\* C21 as stated: a body is accepted only if it has a '?', or a listed token,
\* or one of the symbols + - * / = ^ together with more than 15 characters; a
\* body of letters and digits without a listed token is rejected.
C21_AcceptedOnlyWithSignal ==
    SignalPaperParsed =>
        LET body == SignalBodyOf(p_input)
        IN p_numbered # <<>> =>
              \/ HasQuestionMark(body)
              \/ HasListedToken(body)
              \/ HasSymbol(body) /\ Len(body) > MathMinLen

\* C21: a body of at least 10 characters that is no header is accepted exactly
\* when it has a '?', or a listed token, or "if" before "then", or "given"
\* before "find", or a digit or one of the symbols + - * / = ^ together with
\* more than 15 characters: a digit alone is a signal too.
C21_AcceptedWithSignalOrDigit ==
    SignalPaperParsed =>
        LET body == SignalBodyOf(p_input)
        IN p_numbered # <<>> <=>
              /\ Len(body) >= MinQuestionLen
              /\ ~IsHeader(body)
              /\ \/ HasQuestionMark(body)
                 \/ HasListedToken(body)
                 \/ HasWordThenWord(body, <<"i", "f">>, <<"t", "h", "e", "n">>)
                 \/ HasWordThenWord(body, <<"g", "i", "v", "e", "n">>, <<"f", "i", "n", "d">>)
                 \/ (HasSymbol(body) \/ HasDigit(body)) /\ Len(body) > MathMinLen

\* the body "Take the 3 big red boxes", of letters and one digit and without a
\* listed token, was accepted and returned as a candidate
C21_DigitsAloneAccepted ==
    /\ p_stage = "returned"
    /\ p_input = NumberedLine(1, BodyDigits)
    /\ ~HasQuestionMark(BodyDigits) /\ ~HasListedToken(BodyDigits) /\ ~HasSymbol(BodyDigits)
    /\ Len(p_result) = 1
    /\ p_result[1].question = BodyDigits

-----------------------------------------------------------------------------
(* Properties of the marks of a candidate (ParseSpec)                      *)

\* the numbered pass has run on a paper of one annotated question
MarkedPaperParsed == p_stage \notin {"idle", "called", "cleaned"} /\ p_input \in MarkedTexts

\* C22: a question whose text carries the annotation [3 marks], (3 marks) or a
\* trailing "3 marks" becomes a candidate with marks = 3 whose body no longer
\* contains the annotation.
C22_MarksCapturedAndStripped ==
    MarkedPaperParsed =>
        p_numbered = <<[PlainCandidate(1, StemInertia) EXCEPT !.marks = Some(3)]>>

-----------------------------------------------------------------------------
(* Properties of the case-study pass (ParseSpec)                           *)

\* the label of the part of a case study
CaseLabel(numeral) == <<"C", "a", "s", "e", "-">> \o numeral

IsPrefix(start, text) == Len(start) <= Len(text) /\ SubSeq(text, 1, Len(start)) = start

\* the parts of the paper of case studies parse_questions was called with
CasePartsOf(text) == (CHOOSE paper \in CasePapers : paper.text = text).parts

\* parse_questions has returned on a paper of case studies
CasePaperReturned == p_stage = "returned" /\ p_input \in CaseTexts

\* the candidates of the case-study pass that deduplication keeps: the key is
\* longer than 10 characters, is not the key of a candidate of the numbered or
\* the sub-question pass, nor of an earlier candidate of the case-study pass
CaseKept(numbered, sub, case) ==
    LET kept == SelectSeq([i \in DOMAIN case |-> i],
                          LAMBDA i : /\ Len(QuestionKey(case[i])) > MinKeyLen
                                     /\ QuestionKey(case[i]) \notin Keys(numbered \o sub)
                                     /\ \A j \in 1 .. (i - 1) :
                                           QuestionKey(case[j]) # QuestionKey(case[i]))
    IN [k \in DOMAIN kept |-> case[kept[k]]]

-----------------------------------------------------------------------------
(* Properties of the decoding of the response (Spec)                       *)

\* the JSON documents the text in the fence of a response is, if any
DocumentsOf(text) == {d \in JsonDocuments : d.text = Strip(StripFence(text))}

\* the record is the decode-failure synthesis of the text: the text as the
\* solution, its lines as the steps, nothing else
SynthesisOf(record, text) ==
    /\ record.solution = text
    /\ Len(record.steps) = Newlines(text) + 1
    /\ \A k \in DOMAIN record.steps : Newlines(record.steps[k]) = 0
    /\ Newlines(text) = 0 => record.steps = <<text>>
    /\ record.final_answer = <<>>
    /\ record.explanation = <<>>

\* the calls of the model that returned a text that is not empty
AnsweredCalls == {i \in DOMAIN ai_log : ~ai_log[i].outcome.raises /\ ai_log[i].outcome.text # <<>>}

\* C24 as stated: for every response text that is not empty the record carries
\* the fields of the decoded JSON object or the decode-failure synthesis of the
\* text; no response, valid JSON that is no object included, takes the
\* exception path.
C24_DecodedOrSynthesis ==
    \A i \in AnsweredCalls :
        \/ \E d \in DocumentsOf(ai_log[i].outcome.text) :
              d.kind = "object" /\ CopiedFrom(solved_questions[i], d)
        \/ SynthesisOf(solved_questions[i], StripFence(ai_log[i].outcome.text))

\* C24: for every response text that is not empty the record carries the
\* fields of the decoded JSON object, or, when the text does not decode, its
\* decode-failure synthesis; a text that decodes to a value that is no object
\* takes the exception path: the solution is "Error generating solution: "
\* followed by the message of the AttributeError, and steps, final_answer and
\* explanation are empty.
C24_NonObjectTakesExceptionPath ==
    \A i \in AnsweredCalls :
        LET docs == DocumentsOf(ai_log[i].outcome.text)
        IN /\ docs = {} =>
                 SynthesisOf(solved_questions[i], StripFence(ai_log[i].outcome.text))
           /\ \A d \in docs :
                 IF d.kind = "object" THEN CopiedFrom(solved_questions[i], d)
                 ELSE /\ solved_questions[i].solution = ErrorPrefix \o ListHasNoGet
                      /\ solved_questions[i].steps = <<>>
                      /\ solved_questions[i].final_answer = <<>>
                      /\ solved_questions[i].explanation = <<>>

\* the model answered the JSON array [1] and the record of the question has
\* the error text of the exception path
C24_ArrayAnswered ==
    \E i \in AnsweredCalls :
        /\ ai_log[i].outcome = Returns(JsonArray)
        /\ solved_questions[i].solution = ErrorPrefix \o ListHasNoGet
        /\ solved_questions[i].steps = <<>>

-----------------------------------------------------------------------------
(* Properties of the blocks of the document (SolveSpec)                    *)

\* the style of a paragraph, the kind of any other element
ShapeOf(element) == IF element.kind = "Paragraph" THEN element.style ELSE element.kind

\* whether text ends with the text last
EndsWith(text, last) ==
    Len(last) <= Len(text) /\ SubSeq(text, Len(text) - Len(last) + 1, Len(text)) = last

\* the number of paragraphs that carry the solution of q: its steps, or the
\* one solution text
SolutionParagraphs(q) == IF q.steps # <<>> THEN Len(q.steps) ELSE 1

\* the number of elements of the block of q
BlockLength(q) ==
    3 + SolutionParagraphs(q) + (IF q.final_answer # <<>> THEN 1 ELSE 0)
      + (IF q.explanation # <<>> THEN 2 ELSE 0) + 3

\* the position in the document of the first element of the block of the i-th
\* solved question, after the three elements of the header
RECURSIVE BlockStart(_, _)
BlockStart(solved, i) ==
    IF i = 1 THEN 4 ELSE BlockStart(solved, i - 1) + BlockLength(solved[i - 1])

\* the block of the i-th solved question in the document
BlockOf(doc, solved, i) ==
    SubSeq(doc, BlockStart(solved, i), BlockStart(solved, i) + BlockLength(solved[i]) - 1)

\* block is what the renderer is to emit for q: the question, the heading, the
\* steps as bullets or else the solution text, the final answer if there is
\* one, the explanation if there is one, the separator
BlockAsSpecified(block, q) ==
    LET n == SolutionParagraphs(q)
        answer == IF q.final_answer # <<>> THEN 1 ELSE 0
    IN /\ Len(block) = BlockLength(q)
       /\ [k \in DOMAIN block |-> ShapeOf(block[k])]
            = <<"Question", "Spacer", "CustomHeading">>
                \o [k \in 1 .. n |-> "Solution"]
                \o (IF q.final_answer # <<>> THEN <<"Answer">> ELSE <<>>)
                \o (IF q.explanation # <<>> THEN <<"CustomHeading", "Solution">> ELSE <<>>)
                \o <<"Spacer", "Table", "Spacer">>
       /\ EndsWith(block[1].text, Escape(q.question))
       /\ \A k \in 1 .. n :
             block[3 + k].text = IF q.steps # <<>> THEN Escape(<<Bullet, SP>> \o q.steps[k])
                                 ELSE Escape(q.solution)
       /\ q.final_answer # <<>> => EndsWith(block[3 + n + 1].text, Escape(q.final_answer))
       /\ q.explanation # <<>> => block[3 + n + answer + 2].text = Escape(q.explanation)

\* C25: the document holds, after its header, one block per solved question
\* rendered so far, in the order of the solved list, and nothing else; each
\* block has the steps as bullets when there are steps and otherwise the
\* solution text, never both, a final-answer line exactly when final_answer is
\* not empty, an explanation block exactly when explanation is not empty, and
\* then the separator.
C25_BlocksInOrderAsSpecified ==
    elements # <<>> =>
        /\ blocks <= Len(solved_questions)
        /\ Len(elements) = BlockStart(solved_questions, blocks + 1) - 1
        /\ \A i \in 1 .. blocks :
              BlockAsSpecified(BlockOf(elements, solved_questions, i), solved_questions[i])

\* two questions have been rendered: one with steps, a final answer and an
\* explanation, the other without steps and without a final answer
C25_BothKindsOfBlock ==
    /\ blocks = 2
    /\ \E i, j \in DOMAIN solved_questions :
          /\ solved_questions[i].steps # <<>>
          /\ solved_questions[i].final_answer # <<>>
          /\ solved_questions[i].explanation # <<>>
          /\ solved_questions[j].steps = <<>>
          /\ solved_questions[j].final_answer = <<>>
          /\ Len(BlockOf(elements, solved_questions, j)) = 7
          /\ Len(BlockOf(elements, solved_questions, i)) = 10

-----------------------------------------------------------------------------
(* Properties of the markup the renderer adds (SolveSpec)                  *)

BoldOpen == <<"<", "b", ">">>

BoldClose == <<"<", "/", "b", ">">>

\* the question paragraph with the label in bold tags and the free text
\* escaped before it is put behind them
QuestionMarkup(q) ==
    BoldOpen \o <<"Q", "u", "e", "s", "t", "i", "o", "n", SP>> \o Escape(q.number)
      \o MarksText(q) \o <<":">> \o BoldClose \o <<SP>> \o Escape(q.question)

\* the final-answer paragraph, likewise
FinalAnswerMarkup(q) ==
    BoldOpen \o <<"F", "i", "n", "a", "l", SP, "A", "n", "s", "w", "e", "r", ":">> \o BoldClose
      \o <<SP>> \o Escape(q.final_answer)

\* C26: the free text is escaped before it is combined with the markup of the
\* renderer: the bold tags around "Question <label>:" and "Final Answer:" reach
\* the document as markup and are never escaped themselves.
C26_BoldTagsReachDocument ==
    elements # <<>> =>
        \A i \in 1 .. blocks :
            LET q == solved_questions[i]
                block == BlockOf(elements, solved_questions, i)
            IN /\ block[1].text = QuestionMarkup(q)
               /\ q.final_answer # <<>> =>
                     block[3 + SolutionParagraphs(q) + 1].text = FinalAnswerMarkup(q)

-----------------------------------------------------------------------------
(* Frame properties of the stages (SolveSpec)                              *)

\* C27: later stages never edit earlier entities: once parse_questions has
\* returned, no step changes the list of candidates or a field of a candidate;
\* once format_parsed_questions has returned, no step changes the formatted
\* questions; solve_questions_enhanced only appends records, and the rendering
\* and the saving leave every solved record unchanged.
C27_EarlierEntitiesUnchanged ==
    [][/\ Called("parse_questions") => parsed_questions' = parsed_questions
       /\ Called("format_parsed_questions") => questions_to_solve' = questions_to_solve
       /\ Called("solve_questions_enhanced") =>
             /\ Len(solved_questions') >= Len(solved_questions)
             /\ \A i \in DOMAIN solved_questions : solved_questions'[i] = solved_questions[i]
       /\ pc \in {"render", "rendering", "save"} => solved_questions' = solved_questions]_vars

\* a document of two questions is ready to be saved, one of them a
\* multiple-choice candidate that format_parsed_questions wrapped into a
\* question with the options in its text
C27_McqWrappedAndRendered ==
    /\ pc = "save"
    /\ Len(parsed_questions) = 2
    /\ blocks = 2
    /\ \E i \in DOMAIN parsed_questions :
          /\ parsed_questions[i].options # <<>>
          /\ questions_to_solve[i].question # parsed_questions[i].question
          /\ solved_questions[i].question = questions_to_solve[i].question

-----------------------------------------------------------------------------
(* Properties of two requests handled at the same time (PairSpec)          *)

\* what parse_questions returns for a text
ParsedAlone(text) ==
    LET cleaned == CleanText(text)
    IN Truncated(RemoveDuplicates(ParseNumberedQuestions(cleaned)
                                    \o ParseSubQuestions(cleaned)
                                    \o ParseCaseStudyQuestions(cleaned)))

\* the solved list of a request for the file f that runs alone in a worker
\* without a model
SolvedAlone(f) ==
    LET questions == FormatParsedQuestions(ParsedAlone(ExtractByType(f).text))
    IN [i \in DOMAIN questions |-> LoopRecord(i, questions[i], NoModel, Returns(<<>>))]

\* the request with the locals r has solved what it would have solved alone,
\* and the file its reply names holds its own document
AsIfAlone(r) ==
    /\ (\E i \in DOMAIN r.calls : r.calls[i] = "solve_questions_enhanced") =>
          r.solved_questions = SubSeq(SolvedAlone(r.file), 1, Len(r.solved_questions))
    /\ r.response.kind = "success" =>
          /\ r.solved_questions = SolvedAlone(r.file)
          /\ \E s \in staged : s.path = r.response.pdf_path /\ s.content = r.pdf_content

\* C28: two requests that run interleaved share no mutable state: the solved
\* list and the staged artifact of each are what they would be had it run
\* alone, and the two never write their artifacts to the same path.
C28_RequestsIsolated ==
    peer # NoPeer =>
        /\ AsIfAlone(Locals)
        /\ AsIfAlone(peer)
        /\ (response.kind = "success" /\ peer.response.kind = "success") =>
              response.pdf_path # peer.response.pdf_path

-----------------------------------------------------------------------------
(* Properties of a process loaded without a model (Spec)                   *)

\* the record carries the text of the missing service and nothing else
NotAvailableRecord(rec) ==
    /\ rec.solution = NotAvailableText
    /\ rec.steps = <<>>
    /\ rec.final_answer = <<>>
    /\ rec.explanation = <<>>

-----------------------------------------------------------------------------
(* Properties of _remove_duplicates as a function (ParseSpec)              *)

\* sub is what is left of full when some of its elements are taken out
RECURSIVE IsSubsequence(_, _)
IsSubsequence(sub, full) ==
    IF sub = <<>> THEN TRUE
    ELSE IF full = <<>> THEN FALSE
    ELSE IF Head(sub) = Head(full) THEN IsSubsequence(Tail(sub), Tail(full))
    ELSE IsSubsequence(sub, Tail(full))

\* C30: the list _remove_duplicates returns is a subsequence of the list it
\* was given, no two of its candidates have the same key, and
\* _remove_duplicates applied to it returns it unchanged.
C30_SubsequenceDistinctIdempotent ==
    Deduplicated =>
        /\ IsSubsequence(p_unique, p_questions)
        /\ \A i, j \in DOMAIN p_unique :
              i # j => QuestionKey(p_unique[i]) # QuestionKey(p_unique[j])
        /\ RemoveDuplicates(p_unique) = p_unique

\* _remove_duplicates has kept two candidates or more and dropped one whose
\* key an earlier candidate has
C30_SeenKeyDroppedTwoKept ==
    /\ Deduplicated
    /\ Len(p_unique) >= 2
    /\ Len(p_unique) < Len(p_questions)
    /\ \E i, j \in DOMAIN p_questions :
          /\ i < j
          /\ QuestionKey(p_questions[i]) = QuestionKey(p_questions[j])
          /\ Len(QuestionKey(p_questions[i])) > MinKeyLen

====
